---- MODULE Spec2Model ----
(***************************************************************************)
(* Model of the supermarket price pipeline of budget-manager/scripts:      *)
(* fetch_all_chains.py, scrape_simple.py, scrape_prices.py and             *)
(* import_kaggle.py.  Each script is modelled by the operations it runs;   *)
(* the variable `script` says which script the behaviour belongs to.       *)
(*                                                                         *)
(* Texts are sequences of one-character strings, so that strip(),          *)
(* replace() and float() are computed and not assumed.  Prices parsed by   *)
(* float() are integers counting thousandths (1500 is 1.5); prices stored  *)
(* after round(price, 2) are still counted in thousandths.                 *)
(***************************************************************************)
EXTENDS Integers, Sequences, FiniteSets, TLC

VARIABLES
    script,        \* the script that runs: its file name without ".py"
    pc,            \* position of the script in the operation under study
    all_products,  \* merge: the records the merge loop has consumed, in order
    merged,        \* merge: the dict `merged`, as its values in insertion order
    products,      \* merge: the list handed on after the loop
    feed,          \* parse: the feed file given to the parser
    parsed,        \* parse: the records the parser returned
    parse_error,   \* parse: whether the parser logged "Error parsing <file>"
    download_dir,  \* fetch: the chain's directory as os.walk yields it
    limit,         \* fetch: the cap on the records of the chain
    attempt,       \* fetch: how many times the download task was started
    task_log,      \* fetch: the files_types of each download task, in order
    walk_dir,      \* fetch: the directory os.walk is at, from 1
    walk_file,     \* fetch: the file of that directory the loop is at, from 1
    chain_products,\* fetch: the list `products` of the chain
    parse_log,     \* fetch: one entry per file handed to the parser, in order
    fetch_error,   \* fetch: whether the fetch ended in its except clause
    selected,      \* run: the list of chains main loops over
    update_db,     \* run: whether '--update-db' is on the command line
    fetch_log,     \* run: one entry per chain fetched so far, in order
    run_products,  \* run: the list all_products of main
    chains_summary,\* run: chains_summary (results['chains'] in scrape_prices)
    results_success,\* run: results['success'] of scrape_multiple_chains
    tempdirs,      \* run: the temporary directories that exist
    result,        \* run: the JSON document written to the output
    exit,          \* run: how the invocation ended, "running" before
    db_products,   \* persist: the argument `products` of update_mongodb
    batch,         \* persist: the products the write loop goes over
    db_log,        \* persist: one entry per update_one call, in order
    stats,         \* persist: the counters inserted, updated, errors
    sync_status,   \* persist: the sync-status document of db['settings']
    argv,          \* command line: sys.argv[1:]
    stdout         \* command line: what was printed to standard output, in order

mergeVars == <<all_products, merged, products>>
parseVars == <<feed, parsed, parse_error>>
chainVars == <<download_dir, limit, attempt, task_log, walk_dir, walk_file, chain_products, parse_log, fetch_error>>
runVars == <<selected, update_db, fetch_log, run_products, chains_summary,
             results_success, tempdirs, result, exit>>
persistVars == <<db_products, batch, db_log, stats, sync_status>>
cliVars == <<argv, stdout>>
vars == <<script, pc, mergeVars, parseVars, chainVars, runVars, persistVars, cliVars>>

\* No JSON document was written.
NoOutput == [kind |-> "none"]

\* limit=5000, the default cap on the records of one chain.
DefaultLimit == 5000

\* The variables of an operation that a behaviour does not run keep these
\* values.
IdleMerge == all_products = <<>> /\ merged = <<>> /\ products = <<>>
IdleParse ==
    /\ feed = [corrupt |-> FALSE, items |-> <<>>]
    /\ parsed = <<>>
    /\ parse_error = FALSE
IdleChain ==
    /\ download_dir = << <<>> >>
    /\ limit = DefaultLimit
    /\ attempt = 0
    /\ task_log = <<>>
    /\ walk_dir = 1
    /\ walk_file = 1
    /\ chain_products = <<>>
    /\ parse_log = <<>>
    /\ fetch_error = FALSE
IdleRun ==
    /\ selected = <<>>
    /\ update_db = FALSE
    /\ fetch_log = <<>>
    /\ run_products = <<>>
    /\ chains_summary = {}
    /\ results_success = TRUE
    /\ tempdirs = {}
    /\ result = NoOutput
    /\ exit = "running"
IdlePersist ==
    /\ db_products = <<>>
    /\ batch = <<>>
    /\ db_log = <<>>
    /\ stats = [inserted |-> 0, updated |-> 0, errors |-> 0]
    /\ sync_status = [kind |-> "none"]
IdleCli ==
    /\ argv = <<>>
    /\ stdout = <<>>

(***************************************************************************)
(* Bounds of the model.                                                    *)
(***************************************************************************)
MaxRecords == 3
MaxItems == 2

(***************************************************************************)
(* Python helpers.                                                         *)
(***************************************************************************)
\* None where a text or a tuple is expected: the empty one.
None == <<>>

\* any(pred(x) for x in seq) is written with \E at the place of use.
Last(s) == s[Len(s)]

\* s[a:b] of Python for 0 <= a, with b clipped to len(s).
Slice(s, a, b) ==
    LET hi == IF b < Len(s) THEN b ELSE Len(s)
    IN  IF a >= hi THEN <<>> ELSE SubSeq(s, a + 1, hi)

\* A variant of s[:n] that does not cut: the whole list.
Take_Uncapped(s, n) == s

\* s[:n] for n >= 0.
Take(s, n) == Slice(s, 0, n)

(***************************************************************************)
(* Chain tables.  Display names are Hebrew in the source; they are written *)
(* here in Latin letters.                                                  *)
(***************************************************************************)
MergeChains == {"shufersal", "rami_levy"}

ChainDisplayName(c) ==
    CASE c = "shufersal" -> "Shufersal"
      [] c = "rami_levy" -> "Rami Levy"
      [] c = "victory"   -> "Victory"
      [] OTHER           -> c

(***************************************************************************)
(* Barcodes are texts; the 13-digit one is the spec's example.             *)
(***************************************************************************)
Barcode13 == <<"7","2","9","0","0","0","0","0","6","6","3","1","8">>
Barcode3  == <<"1","1","1">>
MergeBarcodes == {Barcode13, Barcode3}

\* A variant of the image URL whose last group has a fixed width of three.
ImageUrl_FixedWidth(barcode) ==
    IF Len(barcode) >= 12
    THEN <<Slice(barcode, 0, 3), Slice(barcode, 3, 6),
           Slice(barcode, 6, 9), Slice(barcode, 9, 12)>>
    ELSE None

\* The image URL, as the four groups substituted into the URL template.
ImageUrl(barcode) ==
    IF Len(barcode) >= 12
    THEN <<Slice(barcode, 0, 3), Slice(barcode, 3, 6),
           Slice(barcode, 6, 9), Slice(barcode, 9, Len(barcode))>>
    ELSE None

(***************************************************************************)
(* The records the merge consumes (ProductPrice).  Two variants of the     *)
(* ancillary fields exist for every barcode, so that two chains can        *)
(* disagree on them.                                                       *)
(***************************************************************************)
MergeScripts == {"fetch_all_chains", "scrape_simple", "import_kaggle"}
MergePrices == {4500, 5000}
Variants == {1, 2}

VariantName(v)         == IF v = 1 THEN "Milk" ELSE "Milk2"
VariantManufacturer(v) == IF v = 1 THEN "Tnuva" ELSE "Tara"
VariantCategory(v)     == IF v = 1 THEN "dairy" ELSE "general"
VariantUnitQty(v)      == IF v = 1 THEN "1" ELSE "1000"
VariantUnitMeasure(v)  == IF v = 1 THEN "liter" ELSE "ml"

ProductPrice(s, b, c, pr, v) ==
    CASE s = "fetch_all_chains" ->
            [barcode |-> b, name |-> VariantName(v), price |-> pr, chain |-> c,
             chainName |-> ChainDisplayName(c),
             manufacturer |-> VariantManufacturer(v),
             category |-> VariantCategory(v)]
      [] s = "scrape_simple" ->
            [barcode |-> b, name |-> VariantName(v), price |-> pr, chain |-> c,
             chainName |-> ChainDisplayName(c),
             category |-> VariantCategory(v)]
      [] OTHER ->
            [barcode |-> b, name |-> VariantName(v), price |-> pr, chain |-> c,
             chainName |-> ChainDisplayName(c),
             manufacturer |-> VariantManufacturer(v),
             unitQty |-> VariantUnitQty(v),
             unitMeasure |-> VariantUnitMeasure(v),
             category |-> VariantCategory(v)]

MergeRecords(s) ==
    { ProductPrice(s, b, c, pr, v) :
        b \in MergeBarcodes, c \in MergeChains, pr \in MergePrices, v \in Variants }

\* The ancillary fields a merged product of script s carries.
AncillaryFields(s) ==
    CASE s = "fetch_all_chains" -> {"name", "manufacturer", "category"}
      [] s = "scrape_simple"    -> {"name", "category"}
      [] OTHER -> {"name", "manufacturer", "category", "unitQty", "unitMeasure"}

(***************************************************************************)
(* The cross-chain merge.                                                  *)
(***************************************************************************)
\* A variant of the membership test that looks at the newest product only.
InMerged_NewestOnly(m, b) == m # <<>> /\ m[Len(m)].barcode = b

\* barcode in merged
InMerged(m, b) == \E i \in DOMAIN m : m[i].barcode = b
MergedIndex(m, b) == CHOOSE i \in DOMAIN m : m[i].barcode = b

\* merged[barcode] = {...}: the product created when a barcode is first seen.
NewMerged(s, p) ==
    CASE s = "fetch_all_chains" ->
            [barcode |-> p.barcode, name |-> p.name,
             manufacturer |-> p.manufacturer, category |-> p.category,
             prices |-> <<>>]
      [] s = "scrape_simple" ->
            [barcode |-> p.barcode, name |-> p.name, category |-> p.category,
             prices |-> <<>>]
      [] OTHER ->
            [barcode |-> p.barcode, name |-> p.name,
             manufacturer |-> p.manufacturer, category |-> p.category,
             unitQty |-> p.unitQty, unitMeasure |-> p.unitMeasure,
             prices |-> <<>>, image |-> ImageUrl(p.barcode)]

PriceEntry(p) == [chain |-> p.chain, chainName |-> p.chainName, price |-> p.price]

\* A variant of the guard that gives a price to a new product only.
AppendsPrice_NewProductOnly(s, prices, p) == prices = <<>>

\* The guard of the append: fetch_all_chains and scrape_simple append only
\* when no entry of the product has the record's chain; import_kaggle
\* appends always.
AppendsPrice(s, prices, p) ==
    IF s = "import_kaggle"
    THEN TRUE
    ELSE ~ \E k \in DOMAIN prices : prices[k].chain = p.chain

\* A merge that refreshes the ancillary fields from every record.
MergeRecord_LastWins(s, m, p) ==
    LET m1 == IF InMerged(m, p.barcode)
              THEN [m EXCEPT ![MergedIndex(m, p.barcode)] =
                        [NewMerged(s, p) EXCEPT
                            !.prices = m[MergedIndex(m, p.barcode)].prices]]
              ELSE Append(m, NewMerged(s, p))
        i  == MergedIndex(m1, p.barcode)
    IN  IF AppendsPrice(s, m1[i].prices, p)
        THEN [m1 EXCEPT ![i].prices = Append(@, PriceEntry(p))]
        ELSE m1

\* A variant of the merge that puts a new price entry in front.
MergeRecord_Prepend(s, m, p) ==
    LET m1 == IF InMerged(m, p.barcode) THEN m ELSE Append(m, NewMerged(s, p))
        i  == MergedIndex(m1, p.barcode)
    IN  IF AppendsPrice(s, m1[i].prices, p)
        THEN [m1 EXCEPT ![i].prices = <<PriceEntry(p)>> \o @]
        ELSE m1

\* One iteration of the merge loop on record p.
MergeRecord(s, m, p) ==
    LET m1 == IF InMerged(m, p.barcode) THEN m ELSE Append(m, NewMerged(s, p))
        i  == MergedIndex(m1, p.barcode)
    IN  IF AppendsPrice(s, m1[i].prices, p)
        THEN [m1 EXCEPT ![i].prices = Append(@, PriceEntry(p))]
        ELSE m1

\* list.sort(key=lambda x: -len(x['prices'])): a stable sort, most prices first.
RECURSIVE InsertByPrices(_, _)
InsertByPrices(sorted, x) ==
    IF sorted = <<>> THEN <<x>>
    ELSE IF Len(Last(sorted).prices) >= Len(x.prices)
         THEN Append(sorted, x)
         ELSE Append(InsertByPrices(SubSeq(sorted, 1, Len(sorted) - 1), x),
                     Last(sorted))

RECURSIVE SortByPrices(_)
SortByPrices(m) ==
    IF m = <<>> THEN <<>>
    ELSE InsertByPrices(SortByPrices(SubSeq(m, 1, Len(m) - 1)), Last(m))

\* What the merge hands on: list(merged.values()), sorted in import_kaggle.
MergedList(s, m) == IF s = "import_kaggle" THEN SortByPrices(m) ELSE m

\* The chains of the records consumed so far.
ChainsSeen(recs) == { recs[i].chain : i \in DOMAIN recs }

\* The order in which records reach the merge.  fetch_all_chains and
\* scrape_simple concatenate the chains of the command line, which may
\* name a chain twice; import_kaggle walks a dict keyed by chain id, so
\* the records of one chain are contiguous.
MayFollow(s, recs, p) ==
    IF s # "import_kaggle" \/ recs = <<>>
    THEN TRUE
    ELSE IF p.chain = Last(recs).chain
         THEN TRUE
         ELSE p.chain \notin ChainsSeen(recs)

InitMerge ==
    /\ script \in MergeScripts
    /\ pc = "merge"
    /\ all_products = <<>>
    /\ merged = <<>>
    /\ products = <<>>
    /\ IdleParse
    /\ IdleChain
    /\ IdleRun
    /\ IdlePersist
    /\ IdleCli

\* for p in all_products: one iteration, on the next record of the input.
MergeStep ==
    /\ pc = "merge"
    /\ Len(all_products) < MaxRecords
    /\ \E p \in MergeRecords(script) :
          /\ MayFollow(script, all_products, p)
          /\ all_products' = Append(all_products, p)
          /\ merged' = MergeRecord(script, merged, p)
    /\ UNCHANGED <<script, pc, products, parseVars, chainVars, runVars, persistVars, cliVars>>

\* The end of the loop: the merged products are handed on.
MergeReturn ==
    /\ pc = "merge"
    /\ pc' = "merged"
    /\ products' = MergedList(script, merged)
    /\ UNCHANGED <<script, all_products, merged, parseVars, chainVars, runVars, persistVars, cliVars>>

NextMerge == MergeStep \/ MergeReturn

SpecMerge == InitMerge /\ [][NextMerge]_vars

(***************************************************************************)
(* Claims about the merge, checked under SpecMerge.                        *)
(***************************************************************************)
PriceChains(prod) == { prod.prices[k].chain : k \in DOMAIN prod.prices }
EntriesOf(prod, c) == { k \in DOMAIN prod.prices : prod.prices[k].chain = c }

\* The first record of recs with barcode b.
FirstWithBarcode(recs, b) ==
    recs[CHOOSE i \in DOMAIN recs :
            /\ recs[i].barcode = b
            /\ \A j \in 1..(i - 1) : recs[j].barcode # b]

\* The first record of recs with barcode b and chain c.
FirstOfChain(recs, b, c) ==
    recs[CHOOSE i \in DOMAIN recs :
            /\ recs[i].barcode = b /\ recs[i].chain = c
            /\ \A j \in 1..(i - 1) : ~(recs[j].barcode = b /\ recs[j].chain = c)]

\* C1: after any sequence of merged records, every merged product's price
\* list has as many entries as it has distinct chain ids (at most one price
\* per chain), in every merge implementation.
C1_OnePricePerChain ==
    \A i \in DOMAIN merged :
        Len(merged[i].prices) = Cardinality(PriceChains(merged[i]))

\* C2: the ancillary fields of every merged product equal the fields of the
\* first record with its barcode in processing order, after every record
\* consumed and in the list handed on, whatever later records say.
C2_AncillaryFirstSeen ==
    /\ \A i \in DOMAIN merged : \A f \in AncillaryFields(script) :
          merged[i][f] = FirstWithBarcode(all_products, merged[i].barcode)[f]
    /\ pc = "merged" =>
          /\ Len(products) = Len(merged)
          /\ \A i \in DOMAIN products : \A f \in AncillaryFields(script) :
                products[i][f] = FirstWithBarcode(all_products, products[i].barcode)[f]

\* C2's case: the merge is over and a later record of another chain carried
\* the same barcode with a different name.
C2_Witness ==
    /\ pc = "merged"
    /\ \E i, j \in DOMAIN all_products :
          /\ i < j
          /\ all_products[i].barcode = all_products[j].barcode
          /\ all_products[i].chain # all_products[j].chain
          /\ all_products[i].name # all_products[j].name
          /\ all_products[i].barcode = FirstWithBarcode(all_products, all_products[j].barcode).barcode
          /\ FirstWithBarcode(all_products, all_products[j].barcode).name # all_products[j].name

\* C3: for every record consumed, the product of its barcode has exactly one
\* price entry for the record's chain, and that entry holds the price of the
\* first record with this barcode and chain.
C3_FirstPricePerChain ==
    \A j \in DOMAIN all_products :
        LET r    == all_products[j]
            prod == merged[MergedIndex(merged, r.barcode)]
        IN  /\ Cardinality(EntriesOf(prod, r.chain)) = 1
            /\ \A k \in EntriesOf(prod, r.chain) :
                  prod.prices[k].price =
                      FirstOfChain(all_products, r.barcode, r.chain).price

(***************************************************************************)
(* Texts: str.strip(), str.replace(), str.lower(), `in` and float().       *)
(***************************************************************************)
RECURSIVE LStrip(_)
LStrip(s) == IF s # <<>> /\ Head(s) = " " THEN LStrip(Tail(s)) ELSE s

RECURSIVE RStrip(_)
RStrip(s) ==
    IF s # <<>> /\ Last(s) = " " THEN RStrip(SubSeq(s, 1, Len(s) - 1)) ELSE s

\* s.strip()
Strip(s) == RStrip(LStrip(s))

\* s.replace(a, b) for one-character a and b
Replace(s, a, b) == [i \in DOMAIN s |-> IF s[i] = a THEN b ELSE s[i]]

DigitChars == {"0", "1", "2", "3", "4", "5", "6", "7", "8", "9"}

DigitValue(c) ==
    CASE c = "0" -> 0 [] c = "1" -> 1 [] c = "2" -> 2 [] c = "3" -> 3
      [] c = "4" -> 4 [] c = "5" -> 5 [] c = "6" -> 6 [] c = "7" -> 7
      [] c = "8" -> 8 [] c = "9" -> 9

IsDigits(s) == \A i \in DOMAIN s : s[i] \in DigitChars

RECURSIVE DigitsValue(_)
DigitsValue(s) ==
    IF s = <<>> THEN 0
    ELSE 10 * DigitsValue(SubSeq(s, 1, Len(s) - 1)) + DigitValue(Last(s))

\* Numbers.  A value is a record, so that a number, nan, None and the
\* raising of ValueError can be told apart: Num(v) is the double v/1000.
Num(v) == [kind |-> "num", val |-> v]
NaN == [kind |-> "nan", val |-> 0]
NoNumber == [kind |-> "None", val |-> 0]
ValueError == [kind |-> "ValueError", val |-> 0]

\* float(s), for texts made of a sign, digits, at most three digits after
\* the point, or the word nan; surrounding blanks are skipped as float()
\* does.  Every other text (a letter, a comma, two points, no digit) raises
\* ValueError.
Float(s) ==
    LET t      == Strip(s)
        signed == t # <<>> /\ Head(t) \in {"-", "+"}
        u      == IF signed THEN Tail(t) ELSE t
        points == { i \in DOMAIN u : u[i] = "." }
        d      == IF points = {} THEN Len(u) + 1 ELSE CHOOSE i \in points : TRUE
        whole  == SubSeq(u, 1, d - 1)
        frac   == SubSeq(u, d + 1, Len(u))
        mag    == 1000 * DigitsValue(whole)
                    + DigitsValue(Take(frac \o <<"0", "0", "0">>, 3))
    IN  IF u = <<"n", "a", "n">> THEN NaN
        ELSE IF Cardinality(points) > 1 THEN ValueError
        ELSE IF ~IsDigits(whole) \/ ~IsDigits(frac) THEN ValueError
        ELSE IF whole = <<>> /\ frac = <<>> THEN ValueError
        ELSE IF signed /\ Head(t) = "-" THEN Num(0 - mag) ELSE Num(mag)

\* The thousandths below 0.1 that end in 5 and that round(x, 2) rounds up:
\* the binary double nearest to each lies above the decimal tie.
HalfRoundsUp == {5, 25, 35, 55, 65, 85, 95}

\* round(x, 2), for x >= 0 or nan; a value ending in 5 thousandths is
\* decided by HalfRoundsUp (values from 0.1 on that end in 5 are outside
\* the model's prices).
Round2(x) ==
    IF x.kind # "num" THEN x
    ELSE LET q == x.val \div 10
             r == x.val % 10
         IN  IF r < 5 THEN Num(10 * q)
             ELSE IF r > 5 THEN Num(10 * (q + 1))
             ELSE IF x.val \in HalfRoundsUp THEN Num(10 * (q + 1))
             ELSE Num(10 * q)

\* Python's truth value of a text (None and '' are both the empty text),
\* and of a number or None (nan is true).
TextTruthy(t) == t # <<>>
NumberTruthy(x) == x.kind = "nan" \/ (x.kind = "num" /\ x.val # 0)

\* x > 0 and x <= 0 for a number or nan: both false for nan.
Positive(x) == x.kind = "num" /\ x.val > 0
NotPositive(x) == x.kind = "num" /\ x.val <= 0

LowerChar(c) ==
    CASE c = "A" -> "a" [] c = "M" -> "m" [] c = "T" -> "t" [] OTHER -> c

\* s.lower()
Lower(s) == [i \in DOMAIN s |-> LowerChar(s[i])]

\* kw in s
Contains(s, kw) ==
    \E i \in 0..(Len(s) - Len(kw)) : SubSeq(s, i + 1, i + Len(kw)) = kw

(***************************************************************************)
(* The category tables.  The source's keywords are Hebrew; the model keeps *)
(* the order of the tables and writes the keywords in Latin letters.  The  *)
(* keyword "t" (tuna) belongs to two categories, as in the source.         *)
(***************************************************************************)
DefaultCategory == "general"

CATEGORIES ==
    << [label |-> "dairy",  keywords |-> << <<"m">>, <<"c", "h">> >>],
       [label |-> "fish",   keywords |-> << <<"f">>, <<"t">> >>],
       [label |-> "canned", keywords |-> << <<"c", "a">>, <<"t">> >>] >>

RECURSIVE CategoryFrom(_, _, _)
CategoryFrom(table, k, lower) ==
    IF k > Len(table) THEN DefaultCategory
    ELSE IF \E j \in DOMAIN table[k].keywords : Contains(lower, table[k].keywords[j])
         THEN table[k].label
         ELSE CategoryFrom(table, k + 1, lower)

\* A variant of categorize that lets the last matching category of the
\* table win.
categorize_LastMatch(name) ==
    LET hits == { k \in DOMAIN CATEGORIES :
                    \E j \in DOMAIN CATEGORIES[k].keywords :
                        Contains(Lower(name), CATEGORIES[k].keywords[j]) }
    IN  IF hits = {} THEN DefaultCategory
        ELSE CATEGORIES[CHOOSE k \in hits : \A h \in hits : h <= k].label

\* categorize(name) of fetch_all_chains and scrape_simple,
\* categorize_product(name) of import_kaggle
categorize(name) == CategoryFrom(CATEGORIES, 1, Lower(name))

(***************************************************************************)
(* Raw feed items.  An item (an XML element or a CSV row) maps each field  *)
(* name to its text; the empty text stands for a missing child or column   *)
(* and for a child or column without text.                                 *)
(***************************************************************************)
FieldNames ==
    {"ItemCode", "Barcode", "barcode", "item_code",
     "ItemName", "ItemNm", "ProductName", "name", "item_name", "product_name",
     "ItemPrice", "Price", "price", "item_price",
     "ManufacturerName", "Manufacturer", "manufacturer_name",
     "UnitQty", "unit_qty", "Quantity",
     "UnitOfMeasure", "unit_of_measure", "UOM"}

\* The alias lists, as each script writes them.
Aliases(s, attr) ==
    CASE attr = "barcode" ->
            IF s = "import_kaggle"
            THEN <<"ItemCode", "item_code", "Barcode", "barcode">>
            ELSE <<"ItemCode", "Barcode", "barcode">>
      [] attr = "name" ->
            CASE s = "fetch_all_chains" -> <<"ItemName", "ItemNm", "ProductName", "name">>
              [] s = "scrape_simple"    -> <<"ItemName", "ItemNm", "ProductName">>
              [] s = "scrape_prices"    -> <<"ItemName", "ProductName", "name", "ItemNm">>
              [] OTHER -> <<"ItemName", "item_name", "ProductName", "product_name">>
      [] attr = "price" ->
            IF s = "import_kaggle"
            THEN <<"ItemPrice", "item_price", "Price", "price">>
            ELSE <<"ItemPrice", "Price", "price">>
      [] attr = "manufacturer" ->
            IF s = "import_kaggle"
            THEN <<"ManufacturerName", "manufacturer_name", "Manufacturer">>
            ELSE <<"ManufacturerName", "Manufacturer">>
      [] attr = "unit_quantity" ->
            IF s = "import_kaggle"
            THEN <<"UnitQty", "unit_qty", "Quantity">>
            ELSE <<"UnitQty", "Quantity">>
      [] OTHER ->
            IF s = "import_kaggle"
            THEN <<"UnitOfMeasure", "unit_of_measure", "UOM">>
            ELSE <<"UnitOfMeasure", "UOM">>

\* The text of the first field of `names` that has a non-empty text, as it
\* stands (not stripped); the empty text when there is none.  This is the
\* loop "for tag in [...]: if el is not None and el.text: ... break" and
\* the chain "row.get(a) or row.get(b) or ...".
RECURSIVE FirstText(_, _)
FirstText(item, names) ==
    IF names = <<>> THEN <<>>
    ELSE IF item[Head(names)] # <<>> THEN item[Head(names)]
         ELSE FirstText(item, Tail(names))

\* get_xml_text(element, possible_names) of scrape_prices
get_xml_text(element, possible_names) == Strip(FirstText(element, possible_names))

(***************************************************************************)
(* The record normalizers: one raw item to zero or one record.             *)
(***************************************************************************)
\* The price of an item in parse_xml_file and parse_xml: None when no price
\* field has text or when float() raises ValueError.
XmlPrice(s, item) ==
    LET t == FirstText(item, Aliases(s, "price"))
        v == Float(Replace(Strip(t), ",", "."))
    IN  IF t = <<>> THEN NoNumber
        ELSE IF v = ValueError THEN NoNumber ELSE v

\* The body of "for item in items" in parse_xml_file (fetch_all_chains) and
\* parse_xml (scrape_simple): the records appended for one item.
NormalizeXml(s, item, chain_id, chain_name) ==
    LET barcode == Strip(FirstText(item, Aliases(s, "barcode")))
        name    == Strip(FirstText(item, Aliases(s, "name")))
        price   == XmlPrice(s, item)
        manufacturer == Strip(FirstText(item, Aliases(s, "manufacturer")))
    IN  IF TextTruthy(barcode) /\ TextTruthy(name)
           /\ NumberTruthy(price) /\ Positive(price)
        THEN IF s = "fetch_all_chains"
             THEN << [barcode |-> barcode, name |-> name, price |-> Round2(price),
                      chain |-> chain_id, chainName |-> chain_name,
                      manufacturer |-> manufacturer,
                      category |-> categorize(name)] >>
             ELSE << [barcode |-> barcode, name |-> name, price |-> Round2(price),
                      chain |-> chain_id, chainName |-> chain_name,
                      category |-> categorize(name)] >>
        ELSE <<>>

\* The body of "for item in items" in parse_xml_files_directly
\* (scrape_prices): float() is not guarded there, so the item either raises
\* ValueError or yields the records appended.
NormalizeDirect(item, chain_name) ==
    LET s     == "scrape_prices"
        text  == get_xml_text(item, Aliases(s, "price"))
        price == IF text = <<>> THEN Num(0) ELSE Float(text)
        product ==
            [barcode |-> get_xml_text(item, Aliases(s, "barcode")),
             name |-> get_xml_text(item, Aliases(s, "name")),
             price |-> price,
             chain |-> chain_name,
             chain_hebrew |-> ChainDisplayName(chain_name),
             manufacturer |-> get_xml_text(item, Aliases(s, "manufacturer")),
             unit_quantity |-> get_xml_text(item, Aliases(s, "unit_quantity")),
             unit_measure |-> get_xml_text(item, Aliases(s, "unit_measure"))]
    IN  IF price = ValueError
        THEN [raised |-> TRUE, out |-> <<>>]
        ELSE [raised |-> FALSE,
              out |-> IF TextTruthy(product.barcode) /\ TextTruthy(product.name)
                         /\ Positive(product.price)
                      THEN <<product>> ELSE <<>>]

\* The body of "for row in reader" in parse_price_csv (import_kaggle).
NormalizeCsv(row, chain_id, chain_name) ==
    LET s         == "import_kaggle"
        barcode   == Strip(FirstText(row, Aliases(s, "barcode")))
        name      == Strip(FirstText(row, Aliases(s, "name")))
        found     == FirstText(row, Aliases(s, "price"))
        price_str == Strip(IF found = <<>> THEN <<"0">> ELSE found)
        parsed_   == Float(Replace(price_str, ",", "."))
        price     == IF parsed_ = ValueError THEN Num(0) ELSE parsed_
    IN  IF ~TextTruthy(barcode) \/ ~TextTruthy(name) \/ NotPositive(price)
        THEN <<>>
        ELSE << [barcode |-> barcode, name |-> name, price |-> Round2(price),
                 chain |-> chain_id, chainName |-> chain_name,
                 manufacturer |-> Strip(FirstText(row, Aliases(s, "manufacturer"))),
                 unitQty |-> Strip(FirstText(row, Aliases(s, "unit_quantity"))),
                 unitMeasure |-> Strip(FirstText(row, Aliases(s, "unit_measure"))),
                 category |-> categorize(name)] >>

(***************************************************************************)
(* The feed parsers: one file to its records.  A file is corrupt when      *)
(* opening, decompressing or ET.fromstring raises; otherwise it holds the  *)
(* items found in it.  A parser returns its records and whether it logged  *)
(* an error for the file.                                                  *)
(***************************************************************************)
RECURSIVE NormalizeXmlAll(_, _, _, _)
NormalizeXmlAll(s, items, chain_id, chain_name) ==
    IF items = <<>> THEN <<>>
    ELSE NormalizeXml(s, Head(items), chain_id, chain_name)
            \o NormalizeXmlAll(s, Tail(items), chain_id, chain_name)

\* parse_xml_file(filepath, chain_id, chain_name) of fetch_all_chains
parse_xml_file(file, chain_id, chain_name) ==
    IF file.corrupt
    THEN [products |-> <<>>, error |-> TRUE]
    ELSE [products |-> NormalizeXmlAll("fetch_all_chains", file.items, chain_id, chain_name),
          error |-> FALSE]

\* parse_xml(filepath, chain_id, chain_name) of scrape_simple
parse_xml(file, chain_id, chain_name) ==
    IF file.corrupt
    THEN [products |-> <<>>, error |-> TRUE]
    ELSE [products |-> NormalizeXmlAll("scrape_simple", file.items, chain_id, chain_name),
          error |-> FALSE]

\* The try block of parse_xml_files_directly for one file: `acc` is the
\* list `products` on entry.  The item loop stops at the limit, and an item
\* that raises ends the file in the except clause, which keeps what the
\* file appended before.
RECURSIVE DirectItems(_, _, _, _)
DirectItems(acc, items, chain_name, lim) ==
    IF items = <<>> THEN [products |-> acc, error |-> FALSE]
    ELSE IF Len(acc) >= lim THEN [products |-> acc, error |-> FALSE]
    ELSE LET n == NormalizeDirect(Head(items), chain_name)
         IN  IF n.raised THEN [products |-> acc, error |-> TRUE]
             ELSE DirectItems(acc \o n.out, Tail(items), chain_name, lim)

ParseFileDirectly(acc, file, chain_name, lim) ==
    IF file.corrupt
    THEN [products |-> acc, error |-> TRUE]
    ELSE DirectItems(acc, file.items, chain_name, lim)

RECURSIVE NormalizeCsvAll(_, _, _)
NormalizeCsvAll(rows, chain_id, chain_name) ==
    IF rows = <<>> THEN <<>>
    ELSE NormalizeCsv(Head(rows), chain_id, chain_name)
            \o NormalizeCsvAll(Tail(rows), chain_id, chain_name)

\* parse_price_csv(filepath, chain_key) of import_kaggle
parse_price_csv(file, chain_id, chain_name) ==
    IF file.corrupt
    THEN [products |-> <<>>, error |-> TRUE]
    ELSE [products |-> NormalizeCsvAll(file.items, chain_id, chain_name),
          error |-> FALSE]

(***************************************************************************)
(* Parsing one feed file: the inputs and the operations.                   *)
(***************************************************************************)
ParseScripts == {"fetch_all_chains", "scrape_simple", "scrape_prices", "import_kaggle"}

\* The texts a feed may carry in its barcode, name and price fields.
BarcodeTexts == { <<>>, <<" ">>, <<"7">> }
NameTexts == { <<>>, <<"a">> }
PriceTexts ==
    { <<>>, <<"x">>, <<"0">>, <<"-", "1">>, <<".", "0", "0", "4">>,
      <<"1", ",", "5">>, <<" ", "2">>, <<"n", "a", "n">> }

RawItem(code, name, price) ==
    [f \in FieldNames |->
        CASE f = "ItemCode"  -> code
          [] f = "ItemName"  -> name
          [] f = "ItemPrice" -> price
          [] OTHER           -> <<>>]

RawItems ==
    { RawItem(b, n, p) : b \in BarcodeTexts, n \in NameTexts, p \in PriceTexts }

SeqsUpTo(S, n) == UNION { [1..k -> S] : k \in 0..n }

CorruptFile == [corrupt |-> TRUE, items |-> <<>>]

Feeds ==
    {CorruptFile} \cup { [corrupt |-> FALSE, items |-> its] : its \in SeqsUpTo(RawItems, MaxItems) }

\* The chain whose feed is parsed.
ParseChain == "shufersal"

\* The result of the script's parser on one file, from an empty list.
ParseFeed(s, file) ==
    CASE s = "fetch_all_chains" ->
            parse_xml_file(file, ParseChain, ChainDisplayName(ParseChain))
      [] s = "scrape_simple" ->
            parse_xml(file, ParseChain, ChainDisplayName(ParseChain))
      [] s = "scrape_prices" ->
            ParseFileDirectly(<<>>, file, ParseChain, DefaultLimit)
      [] OTHER ->
            parse_price_csv(file, ParseChain, ChainDisplayName(ParseChain))

InitParse ==
    /\ script \in ParseScripts
    /\ pc = "parse"
    /\ feed \in Feeds
    /\ parsed = <<>>
    /\ parse_error = FALSE
    /\ IdleMerge
    /\ IdleChain
    /\ IdleRun
    /\ IdlePersist
    /\ IdleCli

\* parse_xml_file(filepath, chain_id, chain_name) in fetch_all_chains
ParseXmlFile ==
    /\ pc = "parse"
    /\ script = "fetch_all_chains"
    /\ LET r == parse_xml_file(feed, ParseChain, ChainDisplayName(ParseChain))
       IN  parsed' = r.products /\ parse_error' = r.error
    /\ pc' = "parsed"
    /\ UNCHANGED <<script, feed, mergeVars, chainVars, runVars, persistVars, cliVars>>

\* parse_xml(filepath, chain_id, chain_name) in scrape_simple
ParseXml ==
    /\ pc = "parse"
    /\ script = "scrape_simple"
    /\ LET r == parse_xml(feed, ParseChain, ChainDisplayName(ParseChain))
       IN  parsed' = r.products /\ parse_error' = r.error
    /\ pc' = "parsed"
    /\ UNCHANGED <<script, feed, mergeVars, chainVars, runVars, persistVars, cliVars>>

\* parse_xml_files_directly on a directory that holds the one file, in
\* scrape_prices
ParseXmlFilesDirectly ==
    /\ pc = "parse"
    /\ script = "scrape_prices"
    /\ LET r == ParseFileDirectly(<<>>, feed, ParseChain, DefaultLimit)
       IN  parsed' = r.products /\ parse_error' = r.error
    /\ pc' = "parsed"
    /\ UNCHANGED <<script, feed, mergeVars, chainVars, runVars, persistVars, cliVars>>

\* parse_price_csv(filepath, chain_key) in import_kaggle
ParsePriceCsv ==
    /\ pc = "parse"
    /\ script = "import_kaggle"
    /\ LET r == parse_price_csv(feed, ParseChain, ChainDisplayName(ParseChain))
       IN  parsed' = r.products /\ parse_error' = r.error
    /\ pc' = "parsed"
    /\ UNCHANGED <<script, feed, mergeVars, chainVars, runVars, persistVars, cliVars>>

NextParse == ParseXmlFile \/ ParseXml \/ ParseXmlFilesDirectly \/ ParsePriceCsv

SpecParse == InitParse /\ [][NextParse]_vars

(***************************************************************************)
(* Claims about the normalizer, checked under SpecParse.                   *)
(***************************************************************************)
\* C4: every record the normalizer emits has a non-empty barcode, a
\* non-empty name, and a stored price (after rounding) that is a number
\* strictly greater than 0.
C4_EmittedRecordsValid ==
    \A i \in DOMAIN parsed :
        /\ parsed[i].barcode # <<>>
        /\ parsed[i].name # <<>>
        /\ parsed[i].price.kind = "num"
        /\ parsed[i].price.val > 0

\* What the script's parser returns for a file that holds item alone.
AloneRecords(s, item) == ParseFeed(s, [corrupt |-> FALSE, items |-> <<item>>]).products

RECURSIVE EachAlone(_, _)
EachAlone(s, items) ==
    IF items = <<>> THEN <<>>
    ELSE AloneRecords(s, Head(items)) \o EachAlone(s, Tail(items))

\* C5: parsing a readable file never raises on an item (no error is logged
\* for the file), and the file yields, in order, exactly the records that
\* each of its items yields alone: a malformed item is dropped alone,
\* wherever it stands in the file.
C5_MalformedItemDroppedAlone ==
    (pc = "parsed" /\ ~feed.corrupt) =>
        /\ ~parse_error
        /\ parsed = EachAlone(script, feed.items)

(***************************************************************************)
(* Fetching one chain: the download task fills the chain's directory, the  *)
(* script walks the directory, parses the files it accepts and caps the    *)
(* list.  A directory is the sequence of the file lists os.walk yields,    *)
(* the root first.                                                         *)
(***************************************************************************)
MaxFiles == 2
MaxDirs == 2
MaxLimit == 2

ChainScripts == {"fetch_all_chains", "scrape_simple", "scrape_prices", "import_kaggle"}

\* A variant of the list that asks for the full files first.
file_types_FullFirst == << <<"PriceFull">>, <<"Price">>, <<"PriceFull", "Price">> >>

\* file_types_to_try of fetch_chain.
file_types_to_try == << <<"Price">>, <<"PriceFull">>, <<"PriceFull", "Price">> >>

\* The files_types of the k-th download task of a script; import_kaggle
\* downloads a dataset and names none.
FilesTypes(s, k) ==
    CASE s = "fetch_all_chains" -> file_types_to_try[k]
      [] s = "scrape_simple"    -> <<"PRICE_FILE", "PRICE_FULL_FILE">>
      [] s = "scrape_prices"    -> <<"PRICE_FULL_FILE", "PRICE_FILE">>
      [] OTHER                  -> <<>>

\* How many times a script starts the download of a chain: fetch_chain once
\* per entry of file_types_to_try, the other scripts once.
Attempts(s) == IF s = "fetch_all_chains" THEN Len(file_types_to_try) ELSE 1

\* The caps of a fetch.  scrape_simple has the literal 5000 where the other
\* scripts have the parameter; the small caps stand for it.
Limits == (0..MaxLimit) \cup {DefaultLimit}

\* Items of a downloaded file: two well-formed ones and one whose price
\* text is not a number.
ItemA == RawItem(<<"7">>, <<"a">>, <<"2">>)
ItemB == RawItem(<<"8">>, <<"a">>, <<"3">>)
ItemX == RawItem(<<"9">>, <<"a">>, <<"x">>)

\* A downloaded file: whether 'price' is in filename.lower(), the extension
\* of the name, whether reading or parsing the file raises, and its items.
FeedFile(price_name, ext, corrupt, items) ==
    [price_name |-> price_name, ext |-> ext, corrupt |-> corrupt, items |-> items]

FeedExt(s) == IF s = "import_kaggle" THEN ".csv" ELSE ".xml"

FeedFiles(s) ==
    { FeedFile(TRUE, FeedExt(s), TRUE, <<>>),
      FeedFile(TRUE, FeedExt(s), FALSE, <<ItemA>>),
      FeedFile(TRUE, FeedExt(s), FALSE, <<ItemB, ItemA>>),
      FeedFile(TRUE, FeedExt(s), FALSE, <<ItemA, ItemX, ItemB>>),
      FeedFile(FALSE, FeedExt(s), FALSE, <<ItemB>>),
      FeedFile(TRUE, ".txt", FALSE, <<ItemA>>) }

\* The test each walk makes on a file name before it opens the file.
Accepts(s, file) ==
    CASE s = "fetch_all_chains" -> file.price_name /\ file.ext \in {".xml", ".gz"}
      [] s = "scrape_simple"    -> file.ext \in {".xml", ".gz", ".XML", ".GZ"}
      [] s = "scrape_prices"    -> file.ext \in {".gz", ".xml"}
      [] OTHER                  -> file.price_name /\ file.ext = ".csv"

RECURSIVE FileCount(_)
FileCount(dirs) ==
    IF dirs = <<>> THEN 0 ELSE Len(Head(dirs)) + FileCount(Tail(dirs))

\* A log entry names a parsed file by its place in the walk and says how
\* many records the file added to `products` and whether "Error parsing"
\* was logged for it.
LogEntry(d, f, count, error) == [dir |-> d, file |-> f, count |-> count, error |-> error]

InitChain ==
    /\ script \in ChainScripts
    /\ pc = "fetch"
    /\ download_dir = << <<>> >>
    /\ limit \in Limits
    /\ attempt = 0
    /\ task_log = <<>>
    /\ walk_dir = 1
    /\ walk_file = 1
    /\ chain_products = <<>>
    /\ parse_log = <<>>
    /\ fetch_error = FALSE
    /\ IdleMerge
    /\ IdleParse
    /\ IdleRun
    /\ IdlePersist
    /\ IdleCli

\* task.start() is called (download_kaggle_dataset in import_kaggle).
TaskStart ==
    /\ pc = "fetch"
    /\ attempt < Attempts(script)
    /\ attempt' = attempt + 1
    /\ task_log' = Append(task_log, FilesTypes(script, attempt + 1))
    /\ pc' = "downloading"
    /\ UNCHANGED <<script, download_dir, limit, walk_dir, walk_file, chain_products,
                   parse_log, fetch_error, mergeVars, parseVars, runVars, persistVars, cliVars>>

\* The running task makes a sub-directory.
MakeDir ==
    /\ pc = "downloading"
    /\ Len(download_dir) < MaxDirs
    /\ download_dir' = Append(download_dir, <<>>)
    /\ UNCHANGED <<script, pc, limit, attempt, task_log, walk_dir, walk_file, chain_products,
                   parse_log, fetch_error, mergeVars, parseVars, runVars, persistVars, cliVars>>

\* The running task writes a file into the directory it made last.
Download ==
    /\ pc = "downloading"
    /\ FileCount(download_dir) < MaxFiles
    /\ \E file \in FeedFiles(script) :
          download_dir' =
              [download_dir EXCEPT ![Len(download_dir)] = Append(@, file)]
    /\ UNCHANGED <<script, pc, limit, attempt, task_log, walk_dir, walk_file, chain_products,
                   parse_log, fetch_error, mergeVars, parseVars, runVars, persistVars, cliVars>>

\* The running task raises: the except clause of the fetch gives up the
\* chain with no records.
TaskRaise ==
    /\ pc = "downloading"
    /\ chain_products' = <<>>
    /\ fetch_error' = TRUE
    /\ pc' = "returned"
    /\ UNCHANGED <<script, download_dir, limit, attempt, task_log, walk_dir, walk_file,
                   parse_log, mergeVars, parseVars, runVars, persistVars, cliVars>>

\* The running task returns: os.walk starts at the root of the directory.
TaskReturn ==
    /\ pc = "downloading"
    /\ walk_dir' = 1
    /\ walk_file' = 1
    /\ pc' = "walking"
    /\ UNCHANGED <<script, download_dir, limit, attempt, task_log, chain_products,
                   parse_log, fetch_error, mergeVars, parseVars, runVars, persistVars, cliVars>>

\* The places of the two os.walk loops.
WalkOver == walk_dir > Len(download_dir)
DirOver == walk_file > Len(download_dir[walk_dir])
CurrentFile == download_dir[walk_dir][walk_file]
NextFile == walk_dir' = walk_dir /\ walk_file' = walk_file + 1
NextDir == walk_dir' = walk_dir + 1 /\ walk_file' = 1
LeaveWalk == walk_dir' = Len(download_dir) + 1 /\ walk_file' = 1
Logged(count, error) ==
    parse_log' = Append(parse_log, LogEntry(walk_dir, walk_file, count, error))

\* A variant of fetch_chain that tries every entry of file_types_to_try.
StopsTrying_Never(prods) == FALSE

\* "if products: break" after the walk of an attempt.
StopsTrying(prods) == prods # <<>>

\* One step of the os.walk loops of fetch_chain; after the loops, either the
\* next entry of file_types_to_try or "return products[:limit]".
FetchChainWalk ==
    /\ pc = "walking"
    /\ script = "fetch_all_chains"
    /\ IF WalkOver
       THEN /\ IF StopsTrying(chain_products) \/ attempt = Attempts(script)
               THEN chain_products' = Take(chain_products, limit) /\ pc' = "returned"
               ELSE pc' = "fetch" /\ UNCHANGED chain_products
            /\ UNCHANGED <<walk_dir, walk_file, parse_log>>
       ELSE IF DirOver
       THEN /\ IF Len(chain_products) >= limit THEN LeaveWalk ELSE NextDir
            /\ UNCHANGED <<pc, chain_products, parse_log>>
       ELSE IF ~Accepts(script, CurrentFile)
       THEN NextFile /\ UNCHANGED <<pc, chain_products, parse_log>>
       ELSE LET r == parse_xml_file(CurrentFile, ParseChain, ChainDisplayName(ParseChain))
            IN  /\ chain_products' = chain_products \o r.products
                /\ Logged(Len(r.products), r.error)
                /\ IF Len(chain_products) + Len(r.products) >= limit
                   THEN LeaveWalk
                   ELSE NextFile
                /\ UNCHANGED pc
    /\ UNCHANGED <<script, download_dir, limit, attempt, task_log, fetch_error,
                   mergeVars, parseVars, runVars, persistVars, cliVars>>

\* One step of the os.walk loops of scrape_chain in scrape_simple: the cap
\* leaves the loop over the files of one directory only; after the loops,
\* "return products[:5000]".
ScrapeChainWalk ==
    /\ pc = "walking"
    /\ script = "scrape_simple"
    /\ IF WalkOver
       THEN /\ chain_products' = Take(chain_products, limit)
            /\ pc' = "returned"
            /\ UNCHANGED <<walk_dir, walk_file, parse_log>>
       ELSE IF DirOver
       THEN NextDir /\ UNCHANGED <<pc, chain_products, parse_log>>
       ELSE IF ~Accepts(script, CurrentFile)
       THEN NextFile /\ UNCHANGED <<pc, chain_products, parse_log>>
       ELSE LET r == parse_xml(CurrentFile, ParseChain, ChainDisplayName(ParseChain))
            IN  /\ chain_products' = chain_products \o r.products
                /\ Logged(Len(r.products), r.error)
                /\ IF Len(chain_products) + Len(r.products) >= limit
                   THEN NextDir
                   ELSE NextFile
                /\ UNCHANGED pc
    /\ UNCHANGED <<script, download_dir, limit, attempt, task_log, fetch_error,
                   mergeVars, parseVars, runVars, persistVars, cliVars>>

\* One step of the os.walk loops of parse_xml_files_directly, which
\* scrape_chain of scrape_prices calls through parse_scraped_files: the cap
\* is tested before each file and leaves the loop over the files of one
\* directory; after the loops the list is returned as it is.
ParseXmlFilesWalk ==
    /\ pc = "walking"
    /\ script = "scrape_prices"
    /\ IF WalkOver
       THEN /\ pc' = "returned"
            /\ UNCHANGED <<walk_dir, walk_file, chain_products, parse_log>>
       ELSE IF DirOver \/ Len(chain_products) >= limit
       THEN NextDir /\ UNCHANGED <<pc, chain_products, parse_log>>
       ELSE IF ~Accepts(script, CurrentFile)
       THEN NextFile /\ UNCHANGED <<pc, chain_products, parse_log>>
       ELSE LET r == ParseFileDirectly(chain_products, CurrentFile, ParseChain, limit)
            IN  /\ chain_products' = r.products
                /\ Logged(Len(r.products) - Len(chain_products), r.error)
                /\ NextFile
                /\ UNCHANGED pc
    /\ UNCHANGED <<script, download_dir, limit, attempt, task_log, fetch_error,
                   mergeVars, parseVars, runVars, persistVars, cliVars>>

\* One step of the os.walk loops of find_and_parse_csvs for the files of
\* one chain, `products` being results[chain_id]; after the loops the list
\* is returned as it is.
FindAndParseCsvsWalk ==
    /\ pc = "walking"
    /\ script = "import_kaggle"
    /\ IF WalkOver
       THEN /\ pc' = "returned"
            /\ UNCHANGED <<walk_dir, walk_file, chain_products, parse_log>>
       ELSE IF DirOver
       THEN NextDir /\ UNCHANGED <<pc, chain_products, parse_log>>
       ELSE IF ~Accepts(script, CurrentFile)
       THEN NextFile /\ UNCHANGED <<pc, chain_products, parse_log>>
       ELSE LET r == parse_price_csv(CurrentFile, ParseChain, ChainDisplayName(ParseChain))
                remaining == limit - Len(chain_products)
                added == IF r.products # <<>> /\ remaining > 0
                         THEN Take(r.products, remaining)
                         ELSE <<>>
            IN  /\ chain_products' = chain_products \o added
                /\ Logged(Len(added), r.error)
                /\ NextFile
                /\ UNCHANGED pc
    /\ UNCHANGED <<script, download_dir, limit, attempt, task_log, fetch_error,
                   mergeVars, parseVars, runVars, persistVars, cliVars>>

NextChain ==
    \/ TaskStart
    \/ MakeDir
    \/ Download
    \/ TaskRaise
    \/ TaskReturn
    \/ FetchChainWalk
    \/ ScrapeChainWalk
    \/ ParseXmlFilesWalk
    \/ FindAndParseCsvsWalk

SpecChain == InitChain /\ [][NextChain]_vars

(***************************************************************************)
(* Claims about the fetch of one chain, checked under SpecChain.           *)
(***************************************************************************)
\* The files of a directory in walk order.
RECURSIVE WalkOrder(_)
WalkOrder(dirs) ==
    IF dirs = <<>> THEN <<>> ELSE Head(dirs) \o WalkOrder(Tail(dirs))

\* The records the script's parser yields from each accepted file of
\* `files`, concatenated in order.
RECURSIVE RecordsOfFiles(_, _)
RecordsOfFiles(s, files) ==
    IF files = <<>> THEN <<>>
    ELSE (IF Accepts(s, Head(files)) THEN ParseFeed(s, Head(files)).products ELSE <<>>)
            \o RecordsOfFiles(s, Tail(files))

\* The same, leaving out the files for which the parser logs an error.
RECURSIVE RecordsOfCleanFiles(_, _)
RecordsOfCleanFiles(s, files) ==
    IF files = <<>> THEN <<>>
    ELSE (IF Accepts(s, Head(files)) /\ ~ParseFeed(s, Head(files)).error
          THEN ParseFeed(s, Head(files)).products
          ELSE <<>>)
            \o RecordsOfCleanFiles(s, Tail(files))

\* C6: a file whose read or parse fails contributes zero records to the
\* chain, and the other files of the chain are still parsed: with the cap
\* out of reach, the fetch returns exactly the records of the files that
\* parse without error.
C6_FailedFileContributesNothing ==
    (pc = "returned" /\ ~fetch_error /\ limit = DefaultLimit) =>
        /\ \A k \in DOMAIN parse_log : parse_log[k].error => parse_log[k].count = 0
        /\ chain_products = RecordsOfCleanFiles(script, WalkOrder(download_dir))

\* C10: a fetch that returns normally returns the first min(limit, n) of
\* the n records parsed from the chain's files, in file-walk order.
C10_PrefixOfWalk ==
    (pc = "returned" /\ ~fetch_error) =>
        LET all == RecordsOfFiles(script, WalkOrder(download_dir))
            n == Len(all)
        IN  /\ Len(chain_products) = (IF limit < n THEN limit ELSE n)
            /\ \A i \in DOMAIN chain_products : chain_products[i] = all[i]

\* A fetch returned a list that the cap cut, after parsing two files.
C10_Witness ==
    /\ pc = "returned"
    /\ ~fetch_error
    /\ limit = MaxLimit
    /\ Len(parse_log) >= 2
    /\ Len(RecordsOfFiles(script, WalkOrder(download_dir))) > limit
    /\ Len(chain_products) = limit

(***************************************************************************)
(* One invocation over a list of chains: main of fetch_all_chains, main of *)
(* scrape_simple, and main with scrape_multiple_chains of scrape_prices.   *)
(***************************************************************************)
MaxArgs == 2

RunScripts == {"fetch_all_chains", "scrape_simple", "scrape_prices"}

\* The keys of CHAINS, of the dict `chains` of scrape_simple and of
\* CHAIN_TO_ENUM.
KnownChains(s) ==
    CASE s = "fetch_all_chains" ->
            {"shufersal", "rami_levy", "victory", "yeinot_bitan", "mega", "osher_ad",
             "hazi_hinam", "tiv_taam", "yohananof", "good_pharm", "freshmarket",
             "keshet", "bareket", "stop_market", "politzer", "zol_vbegadol",
             "super_yuda"}
      [] s = "scrape_simple" ->
            {"victory", "rami_levy", "yeinot_bitan", "mega", "osher_ad", "hazi_hinam",
             "tiv_taam", "keshet", "bareket", "stop_market", "freshmarket"}
      [] OTHER ->
            {"shufersal", "rami_levy", "victory", "yeinot_bitan", "tiv_taam",
             "osher_ad", "hazi_hinam", "keshet_teamim", "super_pharm", "politzer",
             "freshmarket", "stop_market", "bareket", "maayan_2000", "zol_vbegadol",
             "superyuda"}

\* The chains of a run whose command line selects none.
DefaultSelection(s) ==
    CASE s = "fetch_all_chains" ->
            <<"shufersal", "rami_levy", "victory", "yeinot_bitan", "osher_ad">>
      [] s = "scrape_simple" ->
            <<"victory", "rami_levy", "yeinot_bitan", "mega", "osher_ad", "hazi_hinam",
              "tiv_taam", "keshet", "bareket", "stop_market", "freshmarket">>
      [] OTHER -> <<"shufersal", "rami_levy", "victory">>

\* The words of a command line.
Arguments == {"shufersal", "rami_levy", "bogus", "--update-db"}
ArgLists == SeqsUpTo(Arguments, MaxArgs)

\* [a for a in args if a in CHAINS]
RECURSIVE KnownOf(_, _)
KnownOf(s, args) ==
    IF args = <<>> THEN <<>>
    ELSE (IF Head(args) \in KnownChains(s) THEN <<Head(args)>> ELSE <<>>)
            \o KnownOf(s, Tail(args))

\* The list main loops over, from the command line.
Selected(s, args) ==
    CASE s = "fetch_all_chains" ->
            IF args # <<>> THEN KnownOf(s, args) ELSE DefaultSelection(s)
      [] s = "scrape_simple" ->
            IF KnownOf(s, args) # <<>> THEN KnownOf(s, args) ELSE DefaultSelection(s)
      [] OTHER ->
            IF args # <<>> THEN args ELSE DefaultSelection(s)

\* '--update-db' in sys.argv, which only fetch_all_chains reads.
UpdateDb(s, args) ==
    s = "fetch_all_chains" /\ \E i \in DOMAIN args : args[i] = "--update-db"

\* A record fetched from chain c.
RunRecord(s, c) ==
    IF s = "scrape_prices"
    THEN [barcode |-> Barcode13, name |-> VariantName(1), price |-> 5000,
          chain |-> c, chain_hebrew |-> ChainDisplayName(c)]
    ELSE ProductPrice(s, Barcode13, c, 5000, 1)

\* What the body of the try block of a fetch can do: fail to import the
\* scraper library, raise after it parsed `products`, or reach its return
\* with `products`.
FetchOutcomes(s, c) ==
    { [kind |-> "import_error", products |-> <<>>] }
        \cup { [kind |-> k, products |-> ps] :
                  k \in {"raised", "returned"}, ps \in { <<>>, <<RunRecord(s, c)>> } }

\* A variant of the except clauses that hands on what was parsed before
\* the exception.
FetchResult_KeepsParsed(outcome) == outcome.products

\* The list a fetch hands to the loop: the except clauses return [].
FetchResult(outcome) ==
    IF outcome.kind = "returned" THEN outcome.products ELSE <<>>

FetchEntry(c, outcome) ==
    [chain |-> c, raised |-> outcome.kind # "returned", products |-> FetchResult(outcome)]

\* A variant of the assignment that keeps the value a key already has.
SetKey_KeepFirst(d, k, v) ==
    IF \E e \in d : e[1] = k THEN d ELSE d \cup { <<k, v>> }

\* d[k] = v on a dict kept as its set of <<key, value>> items.
SetKey(d, k, v) == { e \in d : e[1] # k } \cup { <<k, v>> }

\* The merge loop of main over all_products.
RECURSIVE MergeAll(_, _, _)
MergeAll(s, m, recs) ==
    IF recs = <<>> THEN m
    ELSE MergeAll(s, MergeRecord(s, m, Head(recs)), Tail(recs))

\* sum(c.get('products_count', 0) for c in results['chains'].values())
RECURSIVE TotalProducts(_)
TotalProducts(chains) ==
    IF chains = {} THEN 0
    ELSE LET e == CHOOSE x \in chains : TRUE
         IN  (IF e[2].success THEN Len(e[2].products) ELSE 0)
                + TotalProducts(chains \ {e})

\* What update_mongodb can do: fail to import pymongo, raise from the
\* database client, or complete.
DbOutcomes == {"import_error", "raised", "updated"}

InitRun ==
    /\ script \in RunScripts
    /\ pc = "main"
    /\ \E args \in ArgLists :
          /\ selected = Selected(script, args)
          /\ update_db = UpdateDb(script, args)
    /\ fetch_log = <<>>
    /\ run_products = <<>>
    /\ chains_summary = {}
    /\ results_success = TRUE
    /\ tempdirs = {}
    /\ result = NoOutput
    /\ exit = "running"
    /\ IdleMerge
    /\ IdleParse
    /\ IdleChain
    /\ IdlePersist
    /\ IdleCli

\* main up to its loop: sys.exit(1) of fetch_all_chains when no argument is
\* a chain, tempfile.mkdtemp in fetch_all_chains and scrape_simple.
MainStart ==
    /\ pc = "main"
    /\ IF script = "fetch_all_chains" /\ selected = <<>>
       THEN exit' = "exit1" /\ pc' = "done" /\ UNCHANGED tempdirs
       ELSE /\ tempdirs' = IF script = "scrape_prices" THEN tempdirs ELSE {"output_dir"}
            /\ pc' = "loop"
            /\ UNCHANGED exit
    /\ UNCHANGED <<script, selected, update_db, fetch_log, run_products,
                   chains_summary, results_success, result,
                   mergeVars, parseVars, chainVars, persistVars, cliVars>>

\* One iteration of "for chain_id in selected" in main of fetch_all_chains.
FetchAllChainsLoop ==
    /\ pc = "loop"
    /\ script = "fetch_all_chains"
    /\ Len(fetch_log) < Len(selected)
    /\ \E outcome \in FetchOutcomes(script, selected[Len(fetch_log) + 1]) :
          /\ fetch_log' = Append(fetch_log, FetchEntry(selected[Len(fetch_log) + 1], outcome))
          /\ run_products' = run_products \o FetchResult(outcome)
          /\ chains_summary' =
                SetKey(chains_summary, selected[Len(fetch_log) + 1],
                       Len(FetchResult(outcome)))
    /\ UNCHANGED <<script, pc, selected, update_db, results_success, tempdirs,
                   result, exit, mergeVars, parseVars, chainVars, persistVars, cliVars>>

\* One iteration of "for chain_id in selected" in main of scrape_simple.
ScrapeSimpleLoop ==
    /\ pc = "loop"
    /\ script = "scrape_simple"
    /\ Len(fetch_log) < Len(selected)
    /\ \E outcome \in FetchOutcomes(script, selected[Len(fetch_log) + 1]) :
          /\ fetch_log' = Append(fetch_log, FetchEntry(selected[Len(fetch_log) + 1], outcome))
          /\ run_products' = run_products \o FetchResult(outcome)
    /\ UNCHANGED <<script, pc, selected, update_db, chains_summary, results_success,
                   tempdirs, result, exit, mergeVars, parseVars, chainVars, persistVars, cliVars>>

\* One iteration of "for chain in chains" in scrape_multiple_chains, with
\* the scrape_chain it calls: an unknown chain and a missing library return
\* before tempfile.mkdtemp.
ScrapeMultipleLoop ==
    /\ pc = "loop"
    /\ script = "scrape_prices"
    /\ Len(fetch_log) < Len(selected)
    /\ \E outcome \in FetchOutcomes(script, selected[Len(fetch_log) + 1]) :
          IF outcome.kind = "import_error"
          THEN /\ fetch_log' = Append(fetch_log, FetchEntry(selected[Len(fetch_log) + 1], outcome))
               /\ chains_summary' =
                     SetKey(chains_summary, selected[Len(fetch_log) + 1],
                            [success |-> FALSE, products |-> <<>>])
               /\ results_success' = FALSE
               /\ UNCHANGED tempdirs
          ELSE IF selected[Len(fetch_log) + 1] \notin KnownChains(script)
          THEN /\ fetch_log' =
                     Append(fetch_log,
                            [chain |-> selected[Len(fetch_log) + 1], raised |-> FALSE,
                             products |-> <<>>])
               /\ chains_summary' =
                     SetKey(chains_summary, selected[Len(fetch_log) + 1],
                            [success |-> FALSE, products |-> <<>>])
               /\ results_success' = FALSE
               /\ UNCHANGED tempdirs
          ELSE /\ tempdirs' = tempdirs \cup { <<"supermarket", Len(fetch_log) + 1>> }
               /\ fetch_log' = Append(fetch_log, FetchEntry(selected[Len(fetch_log) + 1], outcome))
               /\ chains_summary' =
                     SetKey(chains_summary, selected[Len(fetch_log) + 1],
                            [success |-> outcome.kind = "returned",
                             products |-> FetchResult(outcome)])
               /\ results_success' = (results_success /\ outcome.kind = "returned")
    /\ UNCHANGED <<script, pc, selected, update_db, run_products, result, exit,
                   mergeVars, parseVars, chainVars, persistVars, cliVars>>

\* main of fetch_all_chains after the loop: the merge, then update_mongodb
\* (which catches what the database raises and writes no document) or the
\* JSON document, then shutil.rmtree.
FetchAllChainsFinish ==
    /\ pc = "loop"
    /\ script = "fetch_all_chains"
    /\ Len(fetch_log) = Len(selected)
    /\ result' =
          IF update_db THEN NoOutput
          ELSE [kind |-> "json",
                success |-> TRUE,
                totalProducts |-> Len(MergeAll(script, <<>>, run_products)),
                chainsSummary |-> chains_summary,
                products |-> MergeAll(script, <<>>, run_products)]
    /\ tempdirs' = {}
    /\ exit' = "returned"
    /\ pc' = "done"
    /\ UNCHANGED <<script, selected, update_db, fetch_log, run_products,
                   chains_summary, results_success, mergeVars, parseVars, chainVars, persistVars, cliVars>>

\* main of scrape_simple after the loop: update_mongodb when there are
\* products, whose database client is opened outside any try, then
\* shutil.rmtree.
ScrapeSimpleFinish ==
    /\ pc = "loop"
    /\ script = "scrape_simple"
    /\ Len(fetch_log) = Len(selected)
    /\ \E db \in DbOutcomes :
          IF run_products # <<>> /\ db = "raised"
          THEN exit' = "raised" /\ UNCHANGED tempdirs
          ELSE exit' = "returned" /\ tempdirs' = {}
    /\ pc' = "done"
    /\ UNCHANGED <<script, selected, update_db, fetch_log, run_products,
                   chains_summary, results_success, result,
                   mergeVars, parseVars, chainVars, persistVars, cliVars>>

\* scrape_multiple_chains after the loop and write_output in main of
\* scrape_prices.
ScrapeMultipleFinish ==
    /\ pc = "loop"
    /\ script = "scrape_prices"
    /\ Len(fetch_log) = Len(selected)
    /\ result' = [kind |-> "json",
                  success |-> results_success,
                  chains |-> chains_summary,
                  total_products |-> TotalProducts(chains_summary)]
    /\ exit' = "returned"
    /\ pc' = "done"
    /\ UNCHANGED <<script, selected, update_db, fetch_log, run_products,
                   chains_summary, results_success, tempdirs,
                   mergeVars, parseVars, chainVars, persistVars, cliVars>>

NextRun ==
    \/ MainStart
    \/ FetchAllChainsLoop
    \/ ScrapeSimpleLoop
    \/ ScrapeMultipleLoop
    \/ FetchAllChainsFinish
    \/ ScrapeSimpleFinish
    \/ ScrapeMultipleFinish

SpecRun == InitRun /\ [][NextRun]_vars

(***************************************************************************)
(* Claims about a run, checked under SpecRun.                              *)
(***************************************************************************)
RECURSIVE LogProducts(_)
LogProducts(log) ==
    IF log = <<>> THEN <<>> ELSE Head(log).products \o LogProducts(Tail(log))

\* C7: a chain whose fetch raised contributes zero records; the chains are
\* attempted in the order requested, and the run does not end before every
\* requested chain was attempted.
C7_ChainFailureIsolated ==
    /\ Len(fetch_log) <= Len(selected)
    /\ \A k \in DOMAIN fetch_log :
          /\ fetch_log[k].chain = selected[k]
          /\ fetch_log[k].raised => fetch_log[k].products = <<>>
    /\ script # "scrape_prices" => run_products = LogProducts(fetch_log)
    /\ exit # "running" => Len(fetch_log) = Len(selected)

\* A run ended after a fetch raised and a later chain yielded a record.
C7_Witness ==
    /\ exit = "returned"
    /\ \E k \in DOMAIN fetch_log :
          /\ fetch_log[k].raised
          /\ k < Len(fetch_log)
          /\ fetch_log[k + 1].products # <<>>

\* Whether the document carries no product.
ResultIsEmpty ==
    IF script = "scrape_prices"
    THEN \A e \in result.chains : e[2].products = <<>>
    ELSE result.products = <<>>

\* C8: when no requested chain yields a product, the run ends with a
\* document whose success flag is false and whose product list is empty.
C8_TotalFailureReported ==
    (exit # "running" /\ \A k \in DOMAIN fetch_log : fetch_log[k].products = <<>>) =>
        /\ result.kind = "json"
        /\ ~result.success
        /\ ResultIsEmpty

\* C9: when the invocation has ended, however it ended, no temporary
\* directory it created is left.
C9_TempDirsDeleted == exit # "running" => tempdirs = {}

(***************************************************************************)
(* Field extraction from an item that carries a field under several names. *)
(* The behaviours parse a file of one such item with each script's parser. *)
(***************************************************************************)
\* The field names of the three required attributes, in the order of the
\* priority table of the specification document.
PriorityTable(attr) ==
    CASE attr = "barcode" -> <<"ItemCode", "Barcode", "barcode", "item_code">>
      [] attr = "name" ->
            <<"ItemName", "ItemNm", "ProductName", "name", "item_name", "product_name">>
      [] OTHER -> <<"ItemPrice", "Price", "price", "item_price">>

Range(f) == { f[i] : i \in DOMAIN f }

\* The texts a field of each attribute may carry in these items.
AliasTexts(attr) ==
    CASE attr = "barcode" -> { <<>>, <<"7">>, <<"8">> }
      [] attr = "name"    -> { <<>>, <<"a">>, <<"b">> }
      [] OTHER            -> { <<>>, <<"2">>, <<"3">> }

\* An item whose fields of attribute attr carry the texts of f, and whose
\* other two required attributes are under their first name.
AliasItem(attr, f) ==
    [n \in FieldNames |->
        IF n \in Range(PriorityTable(attr)) THEN f[n]
        ELSE CASE n = "ItemCode"  -> <<"7">>
               [] n = "ItemName"  -> <<"a">>
               [] n = "ItemPrice" -> <<"2">>
               [] OTHER           -> <<>>]

AliasItems ==
    UNION { { AliasItem(attr, f) : f \in [Range(PriorityTable(attr)) -> AliasTexts(attr)] } :
              attr \in {"barcode", "name", "price"} }

InitExtract ==
    /\ script \in ParseScripts
    /\ pc = "parse"
    /\ \E item \in AliasItems : feed = [corrupt |-> FALSE, items |-> <<item>>]
    /\ parsed = <<>>
    /\ parse_error = FALSE
    /\ IdleMerge
    /\ IdleChain
    /\ IdleRun
    /\ IdlePersist
    /\ IdleCli

SpecExtract == InitExtract /\ [][NextParse]_vars

\* How many names of attr carry a text in item.
Carried(item, attr) == { n \in Range(PriorityTable(attr)) : item[n] # <<>> }

\* C11: when the item carries an attribute under several names, the record
\* emitted for it has the text of the name that comes first in the
\* priority table (the price, its number).
C11_FirstAliasWins ==
    (pc = "parsed" /\ parsed # <<>>) =>
        LET item == feed.items[1]
        IN  /\ Cardinality(Carried(item, "barcode")) >= 2 =>
                  parsed[1].barcode = FirstText(item, PriorityTable("barcode"))
            /\ Cardinality(Carried(item, "name")) >= 2 =>
                  parsed[1].name = FirstText(item, PriorityTable("name"))
            /\ Cardinality(Carried(item, "price")) >= 2 =>
                  parsed[1].price = Float(FirstText(item, PriorityTable("price")))

(***************************************************************************)
(* Claims about price texts, checked under SpecParse.                      *)
(***************************************************************************)
\* The item with every comma of its price fields written as a point.
WithPoints(item) ==
    [n \in FieldNames |->
        IF n \in Range(PriorityTable("price")) THEN Replace(item[n], ",", ".")
        ELSE item[n]]

PointFeed(file) ==
    [file EXCEPT !.items = [i \in DOMAIN file.items |-> WithPoints(file.items[i])]]

\* C12: a price text with a comma is parsed to the number of the same text
\* with a point, and its record is accepted under the same conditions: the
\* parser returns for a file what it returns for the file whose price
\* commas are written as points.
C12_CommaIsDecimalPoint ==
    (pc = "parsed" /\ ~feed.corrupt) =>
        parsed = ParseFeed(script, PointFeed(feed)).products

(***************************************************************************)
(* Categorizing: the behaviours parse a file of one item whose name is     *)
(* drawn from the letters of the keywords.                                 *)
(***************************************************************************)
MaxName == 3

NameLetters == {"m", "M", "t", "c", "a", "h", "x"}

CategoryNames == UNION { [1..k -> NameLetters] : k \in 1..MaxName }

InitCategorize ==
    /\ script \in ParseScripts
    /\ pc = "parse"
    /\ \E name \in CategoryNames :
          feed = [corrupt |-> FALSE, items |-> << RawItem(<<"7">>, name, <<"2">>) >>]
    /\ parsed = <<>>
    /\ parse_error = FALSE
    /\ IdleMerge
    /\ IdleChain
    /\ IdleRun
    /\ IdlePersist
    /\ IdleCli

SpecCategorize == InitCategorize /\ [][NextParse]_vars

\* The places in the table of the categories that have a keyword in the
\* lower-cased name.
MatchingCategories(name) ==
    { k \in DOMAIN CATEGORIES :
        \E j \in DOMAIN CATEGORIES[k].keywords :
            Contains(Lower(name), CATEGORIES[k].keywords[j]) }

\* C13: the category of a record is the label of the first category of the
\* table, in declaration order, that has a keyword in the lower-cased name,
\* and the default label when no category has one.
C13_FirstCategoryWins ==
    (pc = "parsed" /\ parsed # <<>> /\ script # "scrape_prices") =>
        LET hits == MatchingCategories(parsed[1].name)
        IN  IF hits = {}
            THEN parsed[1].category = DefaultCategory
            ELSE /\ parsed[1].category \in { CATEGORIES[k].label : k \in hits }
                 /\ \A k \in hits :
                       CATEGORIES[k].label = parsed[1].category
                           => \A h \in hits : k <= h

\* A record was categorized whose name has keywords of two categories.
C13_Witness ==
    /\ pc = "parsed"
    /\ parsed # <<>>
    /\ script # "scrape_prices"
    /\ Cardinality(MatchingCategories(parsed[1].name)) >= 2
    /\ \E k \in MatchingCategories(parsed[1].name) :
          /\ parsed[1].category = CATEGORIES[k].label
          /\ \A h \in MatchingCategories(parsed[1].name) : k <= h


(***************************************************************************)
(* Persistence: update_mongodb of fetch_all_chains and of scrape_simple.   *)
(* fetch_all_chains receives merged products and reads their price list    *)
(* with product.get('prices', []); scrape_simple receives raw records and  *)
(* merges them itself.                                                     *)
(***************************************************************************)
PersistScripts == {"fetch_all_chains", "scrape_simple"}
MaxBatch == 2

Barcode12 == <<"7","2","9","0","0","0","0","0","6","6","3","1">>
Barcode11 == <<"7","2","9","0","0","0","0","0","6","6","3">>
PersistBarcodes == {Barcode13, Barcode12, Barcode11}

\* The price lists of the products handed to fetch_all_chains: none, one
\* entry, and two entries with the cheaper one first, last, or tied.
ChainPrice(c, pr) == [chain |-> c, chainName |-> ChainDisplayName(c), price |-> pr]
PriceLists ==
    { <<>>, <<ChainPrice("shufersal", 5000)>> }
        \cup { <<ChainPrice("shufersal", a), ChainPrice("rami_levy", b)>> :
                  a \in MergePrices, b \in MergePrices }

MergedProduct(b, prices) ==
    [barcode |-> b, name |-> VariantName(1),
     manufacturer |-> VariantManufacturer(1), category |-> VariantCategory(1),
     prices |-> prices]

DistinctBarcodes(ps) ==
    \A i \in DOMAIN ps : \A j \in DOMAIN ps : i # j => ps[i].barcode # ps[j].barcode

\* The arguments of update_mongodb.
PersistInputs(s) ==
    IF s = "fetch_all_chains"
    THEN { ps \in SeqsUpTo({ MergedProduct(b, l) : b \in PersistBarcodes, l \in PriceLists },
                           MaxBatch) : DistinctBarcodes(ps) }
    ELSE SeqsUpTo({ ProductPrice(s, b, c, pr, 1) :
                      b \in PersistBarcodes, c \in MergeChains, pr \in MergePrices },
                  MaxBatch)

\* A variant of the choice of the cheapest entry that takes the first one.
Cheapest_First(prices) ==
    IF prices # <<>> THEN Head(prices) ELSE [price |-> 0, chainName |-> ""]

\* min(prices, key=lambda p: p['price']): the first entry of least price.
RECURSIVE MinByPrice(_, _)
MinByPrice(best, rest) ==
    IF rest = <<>> THEN best
    ELSE MinByPrice(IF Head(rest).price < best.price THEN Head(rest) ELSE best,
                    Tail(rest))

Cheapest(prices) ==
    IF prices # <<>>
    THEN MinByPrice(Head(prices), Tail(prices))
    ELSE [price |-> 0, chainName |-> ""]

\* The '$set' document of update_one, without its timestamps.
Document(s, product) ==
    IF s = "fetch_all_chains"
    THEN [name |-> product.name, manufacturer |-> product.manufacturer,
          category |-> product.category, image |-> ImageUrl(product.barcode),
          prices |-> product.prices,
          cheapestPrice |-> Cheapest(product.prices).price,
          cheapestChain |-> Cheapest(product.prices).chainName,
          dataSource |-> "python-scraper"]
    ELSE [name |-> product.name, category |-> product.category,
          image |-> ImageUrl(product.barcode),
          prices |-> product.prices,
          cheapestPrice |-> Cheapest(product.prices).price,
          cheapestChain |-> Cheapest(product.prices).chainName,
          dataSource |-> "python-scraper"]

\* What update_one can do: upsert a new document, modify one, match one
\* without modifying it, or raise.
WriteOutcomes == {"inserted", "updated", "unchanged", "raised"}

\* A variant of the loop body whose handler stays silent.
Counted_Silent(st, outcome) ==
    CASE outcome = "inserted" -> [st EXCEPT !.inserted = @ + 1]
      [] outcome = "updated"  -> [st EXCEPT !.updated = @ + 1]
      [] OTHER                -> st

\* The counters after one pass of the loop body.
Counted(st, outcome) ==
    CASE outcome = "inserted" -> [st EXCEPT !.inserted = @ + 1]
      [] outcome = "updated"  -> [st EXCEPT !.updated = @ + 1]
      [] outcome = "raised"   -> [st EXCEPT !.errors = @ + 1]
      [] OTHER                -> st

WriteEntry(s, product, outcome) ==
    [barcode |-> product.barcode, doc |-> Document(s, product), outcome |-> outcome]

InitPersist ==
    /\ script \in PersistScripts
    /\ pc = "update_mongodb"
    /\ db_products \in PersistInputs(script)
    /\ batch = <<>>
    /\ db_log = <<>>
    /\ stats = [inserted |-> 0, updated |-> 0, errors |-> 0]
    /\ sync_status = [kind |-> "none"]
    /\ IdleMerge
    /\ IdleParse
    /\ IdleChain
    /\ IdleRun
    /\ IdleCli

\* fetch_all_chains: the import and the connection.  A failed import
\* returns; an exception of the client is caught by the outer handler.
FetchAllChainsConnect ==
    /\ script = "fetch_all_chains"
    /\ pc = "update_mongodb"
    /\ \E o \in {"import_error", "raised", "connected"} :
          IF o = "connected"
          THEN pc' = "writing" /\ batch' = db_products
          ELSE pc' = "returned" /\ UNCHANGED batch
    /\ UNCHANGED <<script, db_products, db_log, stats, sync_status,
                   mergeVars, parseVars, chainVars, runVars, cliVars>>

\* scrape_simple: the import, the connection outside any handler, and the
\* merge of the raw records.
ScrapeSimpleConnect ==
    /\ script = "scrape_simple"
    /\ pc = "update_mongodb"
    /\ \E o \in {"import_error", "raised", "connected"} :
          CASE o = "connected" ->
                  /\ pc' = "writing"
                  /\ batch' = MergeAll(script, <<>>, db_products)
            [] o = "raised" -> pc' = "raised" /\ UNCHANGED batch
            [] OTHER -> pc' = "returned" /\ UNCHANGED batch
    /\ UNCHANGED <<script, db_products, db_log, stats, sync_status,
                   mergeVars, parseVars, chainVars, runVars, cliVars>>

\* One pass of the loop `for product in products`.
FetchAllChainsWrite ==
    /\ script = "fetch_all_chains"
    /\ pc = "writing"
    /\ Len(db_log) < Len(batch)
    /\ \E o \in WriteOutcomes :
          /\ db_log' = Append(db_log, WriteEntry(script, batch[Len(db_log) + 1], o))
          /\ stats' = Counted(stats, o)
    /\ UNCHANGED <<script, pc, db_products, batch, sync_status,
                   mergeVars, parseVars, chainVars, runVars, cliVars>>

\* One pass of the loop `for product in merged.values()`.
ScrapeSimpleWrite ==
    /\ script = "scrape_simple"
    /\ pc = "writing"
    /\ Len(db_log) < Len(batch)
    /\ \E o \in WriteOutcomes :
          /\ db_log' = Append(db_log, WriteEntry(script, batch[Len(db_log) + 1], o))
          /\ stats' = Counted(stats, o)
    /\ UNCHANGED <<script, pc, db_products, batch, sync_status,
                   mergeVars, parseVars, chainVars, runVars, cliVars>>

\* After the loop fetch_all_chains writes the sync status; an exception
\* of that write is caught by the outer handler.
FetchAllChainsSync ==
    /\ script = "fetch_all_chains"
    /\ pc = "writing"
    /\ Len(db_log) = Len(batch)
    /\ \E ok \in BOOLEAN :
          IF ok
          THEN sync_status' = [kind |-> "sync", totalProducts |-> Len(db_products),
                               storeStats |-> stats]
          ELSE UNCHANGED sync_status
    /\ pc' = "returned"
    /\ UNCHANGED <<script, db_products, batch, db_log, stats,
                   mergeVars, parseVars, chainVars, runVars, cliVars>>

\* After the loop scrape_simple closes the client and prints the counters.
ScrapeSimpleClose ==
    /\ script = "scrape_simple"
    /\ pc = "writing"
    /\ Len(db_log) = Len(batch)
    /\ pc' = "returned"
    /\ UNCHANGED <<script, db_products, batch, db_log, stats, sync_status,
                   mergeVars, parseVars, chainVars, runVars, cliVars>>

NextPersist ==
    \/ FetchAllChainsConnect
    \/ ScrapeSimpleConnect
    \/ FetchAllChainsWrite
    \/ ScrapeSimpleWrite
    \/ FetchAllChainsSync
    \/ ScrapeSimpleClose

SpecPersist == InitPersist /\ [][NextPersist]_vars

\* The least price of a non-empty list.
LeastPrice(prices) ==
    CHOOSE m \in { prices[i].price : i \in DOMAIN prices } :
        \A i \in DOMAIN prices : m <= prices[i].price

\* C14: in every document written, cheapestPrice is the minimum price of
\* the product's list and cheapestChain is the display name of an entry
\* with that price; with an empty list they are 0 and the empty string.
C14_CheapestIsMinimum ==
    \A k \in DOMAIN db_log :
        LET d == db_log[k].doc
        IN  IF d.prices # <<>>
            THEN /\ d.cheapestPrice = LeastPrice(d.prices)
                 /\ \E i \in DOMAIN d.prices :
                       /\ d.prices[i].price = d.cheapestPrice
                       /\ d.prices[i].chainName = d.cheapestChain
            ELSE d.cheapestPrice = 0 /\ d.cheapestChain = ""

\* A document whose cheapest entry is not the first of its list, and one
\* of a product without prices, have been written.
C14_Witness ==
    /\ \E k \in DOMAIN db_log :
          /\ Len(db_log[k].doc.prices) = 2
          /\ db_log[k].doc.prices[2].price < db_log[k].doc.prices[1].price
          /\ db_log[k].doc.cheapestPrice = db_log[k].doc.prices[2].price
          /\ db_log[k].doc.cheapestChain = db_log[k].doc.prices[2].chainName
    /\ \E k \in DOMAIN db_log :
          db_log[k].doc.prices = <<>> /\ db_log[k].doc.cheapestPrice = 0

\* The rule of the image URL: four groups of widths 3, 3, 3 and the rest,
\* which put together give the barcode; none below twelve characters.
ImageRule(barcode, image) ==
    IF Len(barcode) >= 12
    THEN /\ Len(image) = 4
         /\ image[1] = SubSeq(barcode, 1, 3)
         /\ image[2] = SubSeq(barcode, 4, 6)
         /\ image[3] = SubSeq(barcode, 7, 9)
         /\ image[4] = SubSeq(barcode, 10, Len(barcode))
         /\ image[1] \o image[2] \o image[3] \o image[4] = barcode
    ELSE image = None

\* C15: every document written carries the image URL built from the groups
\* barcode[0:3], barcode[3:6], barcode[6:9] and barcode[9:] when the
\* barcode has twelve characters or more, and no image URL otherwise.
C15_ImageGroups ==
    \A k \in DOMAIN db_log : ImageRule(db_log[k].barcode, db_log[k].doc.image)

\* The spec's example 729/000/006/6318 and a barcode of eleven characters
\* have both been written.
C15_Witness ==
    /\ \E k \in DOMAIN db_log :
          /\ db_log[k].barcode = Barcode13
          /\ db_log[k].doc.image =
                <<<<"7","2","9">>, <<"0","0","0">>, <<"0","0","6">>, <<"6","3","1","8">>>>
    /\ \E k \in DOMAIN db_log :
          db_log[k].barcode = Barcode11 /\ db_log[k].doc.image = None

(***************************************************************************)
(* The batch result: the JSON document main of fetch_all_chains prints     *)
(* without --update-db, and the one main of import_kaggle hands to         *)
(* output_result, both built from the merge of all accepted records.       *)
(***************************************************************************)
BatchScripts == {"fetch_all_chains", "import_kaggle"}

InitBatch ==
    /\ script \in BatchScripts
    /\ pc = "merge"
    /\ all_products = <<>>
    /\ merged = <<>>
    /\ products = <<>>
    /\ IdleParse
    /\ IdleChain
    /\ IdleRun
    /\ IdlePersist
    /\ IdleCli

\* fetch_all_chains: result = {'totalProducts': len(merged), 'products':
\* list(merged.values()), ...}.
FetchAllChainsResult ==
    /\ script = "fetch_all_chains"
    /\ pc = "merge"
    /\ pc' = "done"
    /\ products' = MergedList(script, merged)
    /\ result' = [kind |-> "json", success |-> TRUE,
                  totalProducts |-> Len(merged),
                  products |-> MergedList(script, merged)]
    /\ UNCHANGED <<script, all_products, merged, selected, update_db, fetch_log,
                   run_products, chains_summary, results_success, tempdirs, exit,
                   parseVars, chainVars, persistVars, cliVars>>

\* import_kaggle: merged_products = merge_products_by_barcode(...), then
\* result = {'totalProducts': len(merged_products), 'products':
\* merged_products, ...}.
ImportKaggleResult ==
    /\ script = "import_kaggle"
    /\ pc = "merge"
    /\ pc' = "done"
    /\ products' = MergedList(script, merged)
    /\ result' = [kind |-> "json", success |-> TRUE,
                  totalProducts |-> Len(MergedList(script, merged)),
                  products |-> MergedList(script, merged)]
    /\ UNCHANGED <<script, all_products, merged, selected, update_db, fetch_log,
                   run_products, chains_summary, results_success, tempdirs, exit,
                   parseVars, chainVars, persistVars, cliVars>>

NextBatch == MergeStep \/ FetchAllChainsResult \/ ImportKaggleResult

SpecBatch == InitBatch /\ [][NextBatch]_vars

\* The barcodes of the records accepted so far.
AcceptedBarcodes == { all_products[i].barcode : i \in DOMAIN all_products }

\* C16: in the batch result every accepted barcode is the barcode of
\* exactly one element of products, no other barcode occurs, and
\* totalProducts is the length of products and the number of distinct
\* accepted barcodes.
C16_OneProductPerBarcode ==
    result.kind = "json" =>
        /\ \A b \in AcceptedBarcodes :
              Cardinality({ i \in DOMAIN result.products :
                              result.products[i].barcode = b }) = 1
        /\ \A i \in DOMAIN result.products :
              result.products[i].barcode \in AcceptedBarcodes
        /\ result.totalProducts = Len(result.products)
        /\ result.totalProducts = Cardinality(AcceptedBarcodes)

\* A result of three records with two barcodes, the repeated barcode
\* returning after the other one.
C16_Witness ==
    /\ result.kind = "json"
    /\ Len(all_products) = 3
    /\ all_products[1].barcode = all_products[3].barcode
    /\ all_products[1].barcode # all_products[2].barcode
    /\ result.totalProducts = 2

\* The position in recs of the first record with barcode b and chain c.
FirstSeen(recs, b, c) ==
    CHOOSE i \in DOMAIN recs :
        /\ recs[i].barcode = b /\ recs[i].chain = c
        /\ \A j \in 1..(i - 1) : ~(recs[j].barcode = b /\ recs[j].chain = c)

\* The chains that reported barcode b.
ChainsOf(recs, b) == { recs[i].chain : i \in { j \in DOMAIN recs : recs[j].barcode = b } }

\* The price list follows the first observation of each chain.
InFirstSeenOrder(recs, prod) ==
    /\ PriceChains(prod) = ChainsOf(recs, prod.barcode)
    /\ \A k \in DOMAIN prod.prices : \A l \in DOMAIN prod.prices :
          k < l => FirstSeen(recs, prod.barcode, prod.prices[k].chain)
                      <= FirstSeen(recs, prod.barcode, prod.prices[l].chain)

\* C17: the price entries of every merged product are ordered by the first
\* observation of their chain among the records processed, during the merge
\* and in the list it hands on.
C17_PricesInFetchOrder ==
    /\ \A i \in DOMAIN merged : InFirstSeenOrder(all_products, merged[i])
    /\ \A i \in DOMAIN products : InFirstSeenOrder(all_products, products[i])

\* rami_levy was processed before shufersal, both reported the same
\* barcode, and the product handed on lists rami_levy's entry first.
C17_Witness ==
    /\ pc = "merged"
    /\ Len(all_products) >= 2
    /\ all_products[1].chain = "rami_levy"
    /\ all_products[2].chain = "shufersal"
    /\ all_products[1].barcode = all_products[2].barcode
    /\ \E i \in DOMAIN products :
          /\ products[i].barcode = all_products[1].barcode
          /\ products[i].prices[1] = PriceEntry(all_products[1])
          /\ products[i].prices[2] = PriceEntry(all_products[2])

\* The writes that raised so far.
FailedWrites == { k \in DOMAIN db_log : db_log[k].outcome = "raised" }

\* C18: the products of the batch are attempted once each, in order; the
\* error counter is the number of writes that raised; and update_mongodb
\* does not return from the loop before every product was attempted.
C18_FailedWriteCounted ==
    /\ Len(db_log) <= Len(batch)
    /\ \A k \in DOMAIN db_log : db_log[k].barcode = batch[k].barcode
    /\ \A k \in DOMAIN batch : \A l \in DOMAIN batch :
          k # l => batch[k].barcode # batch[l].barcode
    /\ stats.errors = Cardinality(FailedWrites)
    /\ pc = "returned" => Len(db_log) = Len(batch)

\* The write of the first product raised, the second product was written,
\* and the function returned with one error counted.
C18_Witness ==
    /\ pc = "returned"
    /\ Len(batch) = 2
    /\ Len(db_log) = 2
    /\ db_log[1].outcome = "raised"
    /\ db_log[2].outcome = "inserted"
    /\ stats = [inserted |-> 1, updated |-> 0, errors |-> 1]

(***************************************************************************)
(* The command line: what main of fetch_all_chains, scrape_simple and      *)
(* scrape_prices makes of sys.argv[1:], and what it prints to standard     *)
(* output.  The fetch between the two is kept to its outcome.              *)
(***************************************************************************)
CliArguments ==
    {"rami_levy", "bogus", "--update-db", "--list", "--help", "--output", "out.json"}
CliArgLists == SeqsUpTo(CliArguments, MaxArgs)

\* 'w' in args
Has(args, w) == \E i \in DOMAIN args : args[i] = w

\* args.index(w)
IndexOf(args, w) == CHOOSE i \in DOMAIN args : args[i] = w /\ \A j \in 1..(i - 1) : args[j] # w

\* scrape_prices: the '--output' flag takes the word after it, when there
\* is one; otherwise the flag stays among the arguments.
TakesOutput(args) == Has(args, "--output") /\ IndexOf(args, "--output") + 1 <= Len(args)
OutputFile(args) == IF TakesOutput(args) THEN args[IndexOf(args, "--output") + 1] ELSE ""
WithoutOutput(args) ==
    IF TakesOutput(args)
    THEN SubSeq(args, 1, IndexOf(args, "--output") - 1)
            \o SubSeq(args, IndexOf(args, "--output") + 2, Len(args))
    ELSE args

\* What print() puts on standard output.
JsonDocument == [kind |-> "json"]
BarePath(f)  == [kind |-> "path", text |-> f]
TextLine(c)  == [kind |-> "text", text |-> c]

\* write_output: the path when there is an output file, the JSON otherwise.
WriteOutput(outfile) == IF outfile # "" THEN BarePath(outfile) ELSE JsonDocument

\* scrape_simple --list: one line "id: name" per chain.
ChainLines(chains) == [i \in DOMAIN chains |-> TextLine(chains[i])]

InitCli ==
    /\ script \in RunScripts
    /\ pc = "main"
    /\ argv \in CliArgLists
    /\ stdout = <<>>
    /\ IdleMerge
    /\ IdleParse
    /\ IdleChain
    /\ IdleRun
    /\ IdlePersist

\* main of fetch_all_chains up to the fetch: --list, the selection and
\* sys.exit(1) when it is empty.
FetchAllChainsArgs ==
    /\ script = "fetch_all_chains"
    /\ pc = "main"
    /\ IF Has(argv, "--list")
       THEN /\ stdout' = Append(stdout, JsonDocument)
            /\ exit' = "returned" /\ pc' = "done"
            /\ UNCHANGED selected
       ELSE /\ selected' = Selected(script, argv)
            /\ IF Selected(script, argv) = <<>>
               THEN exit' = "exit1" /\ pc' = "done"
               ELSE pc' = "fetch" /\ UNCHANGED exit
            /\ UNCHANGED stdout
    /\ UNCHANGED <<script, argv, update_db, fetch_log, run_products, chains_summary,
                   results_success, tempdirs, result,
                   mergeVars, parseVars, chainVars, persistVars>>

\* main of fetch_all_chains after the fetch: update_mongodb, which prints
\* to standard error only, or the JSON document.
FetchAllChainsOutput ==
    /\ script = "fetch_all_chains"
    /\ pc = "fetch"
    /\ stdout' = IF UpdateDb(script, argv) THEN stdout ELSE Append(stdout, JsonDocument)
    /\ exit' = "returned"
    /\ pc' = "done"
    /\ UNCHANGED <<script, argv, selected, update_db, fetch_log, run_products,
                   chains_summary, results_success, tempdirs, result,
                   mergeVars, parseVars, chainVars, persistVars>>

\* main of scrape_simple up to the fetch: --list and the selection.
ScrapeSimpleArgs ==
    /\ script = "scrape_simple"
    /\ pc = "main"
    /\ IF Has(argv, "--list")
       THEN /\ stdout' = stdout \o ChainLines(DefaultSelection(script))
            /\ exit' = "returned" /\ pc' = "done"
            /\ UNCHANGED selected
       ELSE /\ selected' = Selected(script, argv)
            /\ pc' = "fetch"
            /\ UNCHANGED <<stdout, exit>>
    /\ UNCHANGED <<script, argv, update_db, fetch_log, run_products, chains_summary,
                   results_success, tempdirs, result,
                   mergeVars, parseVars, chainVars, persistVars>>

\* main of scrape_simple after the fetch: update_mongodb when products
\* were found, whose database client can raise; nothing is printed to
\* standard output.
ScrapeSimpleOutput ==
    /\ script = "scrape_simple"
    /\ pc = "fetch"
    /\ \E found \in BOOLEAN : \E db \in DbOutcomes :
          exit' = IF found /\ db = "raised" THEN "raised" ELSE "returned"
    /\ pc' = "done"
    /\ UNCHANGED <<script, argv, stdout, selected, update_db, fetch_log, run_products,
                   chains_summary, results_success, tempdirs, result,
                   mergeVars, parseVars, chainVars, persistVars>>

\* main of scrape_prices up to the fetch: --output, --list, --help and the
\* chains handed to scrape_multiple_chains.
ScrapePricesArgs ==
    /\ script = "scrape_prices"
    /\ pc = "main"
    /\ IF WithoutOutput(argv) # <<>> /\ WithoutOutput(argv)[1] = "--list"
       THEN /\ stdout' = Append(stdout, WriteOutput(OutputFile(argv)))
            /\ exit' = "returned" /\ pc' = "done"
            /\ UNCHANGED selected
       ELSE IF WithoutOutput(argv) # <<>> /\ WithoutOutput(argv)[1] = "--help"
       THEN /\ exit' = "returned" /\ pc' = "done"
            /\ UNCHANGED <<stdout, selected>>
       ELSE /\ selected' = Selected(script, WithoutOutput(argv))
            /\ pc' = "fetch"
            /\ UNCHANGED <<stdout, exit>>
    /\ UNCHANGED <<script, argv, update_db, fetch_log, run_products, chains_summary,
                   results_success, tempdirs, result,
                   mergeVars, parseVars, chainVars, persistVars>>

\* main of scrape_prices after the fetch: write_output, whose open() of
\* the output file can raise.
ScrapePricesOutput ==
    /\ script = "scrape_prices"
    /\ pc = "fetch"
    /\ \E opened \in BOOLEAN :
          IF OutputFile(argv) # "" /\ ~opened
          THEN exit' = "raised" /\ UNCHANGED stdout
          ELSE /\ exit' = "returned"
               /\ stdout' = Append(stdout, WriteOutput(OutputFile(argv)))
    /\ pc' = "done"
    /\ UNCHANGED <<script, argv, selected, update_db, fetch_log, run_products,
                   chains_summary, results_success, tempdirs, result,
                   mergeVars, parseVars, chainVars, persistVars>>

NextCli ==
    \/ FetchAllChainsArgs
    \/ FetchAllChainsOutput
    \/ ScrapeSimpleArgs
    \/ ScrapeSimpleOutput
    \/ ScrapePricesArgs
    \/ ScrapePricesOutput

SpecCli == InitCli /\ [][NextCli]_vars

\* C19: an invocation that returned has printed exactly one thing to
\* standard output, a JSON document or a bare path, in every mode of the
\* command line.
C19_OneDocumentOnStdout ==
    (pc = "done" /\ exit = "returned") =>
        /\ Len(stdout) = 1
        /\ stdout[1].kind \in {"json", "path"}

\* A command line of option flags only: --update-db, and --output with
\* its file.
FlagsOnly(args) ==
    \A i \in DOMAIN args :
        \/ args[i] = "--update-db"
        \/ args[i] = "--output" /\ i < Len(args) /\ args[i + 1] = "out.json"
        \/ args[i] = "out.json" /\ i > 1 /\ args[i - 1] = "--output"

\* C20: a run whose command line names no chain, whatever flags it
\* carries, goes on to fetch the default subset and does not exit with an
\* error.
C20_FlagsKeepDefault ==
    (pc # "main" /\ FlagsOnly(argv)) =>
        /\ exit # "exit1"
        /\ selected = DefaultSelection(script)

(***************************************************************************)
(* Further claims about the fetch of one chain, checked under SpecChain.   *)
(***************************************************************************)
\* The scripts whose walk stops at the cap.
CappedWalks == {"fetch_all_chains", "scrape_simple", "scrape_prices"}

\* C21: no file is opened or parsed once the records accumulated for the
\* chain have reached the cap: every step that parses a file starts with
\* fewer records than the cap.
C21_NoFileAfterCap ==
    [][(script \in CappedWalks /\ limit > 0 /\ parse_log' # parse_log)
          => Len(chain_products) < limit]_vars

\* The file types the claim gives for the k-th attempt.
ClaimedTypes(k) ==
    CASE k = 1 -> <<"Price">>
      [] k = 2 -> <<"PriceFull">>
      [] OTHER -> <<"PriceFull", "Price">>

\* C22: fetch_chain issues at most three attempts, the k-th one for the
\* file types [Price], [PriceFull], [PriceFull, Price] in this order, and
\* issues an attempt only while no product has been parsed.
C22_AttemptsInOrder ==
    /\ [](script = "fetch_all_chains" =>
            /\ Len(task_log) <= 3
            /\ \A k \in DOMAIN task_log : task_log[k] = ClaimedTypes(k))
    /\ [][(script = "fetch_all_chains" /\ task_log' # task_log) =>
            /\ Len(task_log') = Len(task_log) + 1
            /\ chain_products = <<>>]_vars

\* The first two attempts parsed a file without a record, the third one
\* found products and the fetch returned them.
C22_Witness ==
    /\ script = "fetch_all_chains"
    /\ pc = "returned"
    /\ Len(task_log) = 3
    /\ chain_products # <<>>
    /\ Len(parse_log) >= 3

(***************************************************************************)
(* Items whose first barcode or name field holds only blanks, parsed with  *)
(* each script's parser.                                                   *)
(***************************************************************************)
BlankItem(code, barcode, name, product_name) ==
    [n \in FieldNames |->
        CASE n = "ItemCode"    -> code
          [] n = "Barcode"     -> barcode
          [] n = "ItemName"    -> name
          [] n = "ProductName" -> product_name
          [] n = "ItemPrice"   -> <<"2">>
          [] OTHER             -> <<>>]

BlankItems ==
    { BlankItem(c, b, n, pn) :
        c \in { <<>>, <<" ">>, <<"7">>, <<" ", "7">> },
        b \in { <<>>, <<" ">>, <<"8">>, <<"8", " ">> },
        n \in { <<>>, <<" ">>, <<"a">> },
        pn \in { <<>>, <<"b">> } }

InitBlank ==
    /\ script \in ParseScripts
    /\ pc = "parse"
    /\ \E item \in BlankItems : feed = [corrupt |-> FALSE, items |-> <<item>>]
    /\ parsed = <<>>
    /\ parse_error = FALSE
    /\ IdleMerge
    /\ IdleChain
    /\ IdleRun
    /\ IdlePersist
    /\ IdleCli

SpecBlank == InitBlank /\ [][NextParse]_vars

\* The trimmed text of the first field of `names` whose trimmed text is
\* not empty; the empty text when there is none.
RECURSIVE FirstNonBlank(_, _)
FirstNonBlank(item, names) ==
    IF names = <<>> THEN <<>>
    ELSE IF Strip(item[Head(names)]) # <<>> THEN Strip(item[Head(names)])
         ELSE FirstNonBlank(item, Tail(names))

\* C23: the extractor passes over a field that holds only blanks: the
\* record of an item has the trimmed text of the first barcode field and of
\* the first name field that are not blank, and the item yields no record
\* only when every barcode field or every name field is blank.
C23_BlankAliasSkipped ==
    pc = "parsed" =>
        IF FirstNonBlank(feed.items[1], Aliases(script, "barcode")) # <<>>
              /\ FirstNonBlank(feed.items[1], Aliases(script, "name")) # <<>>
        THEN /\ Len(parsed) = 1
             /\ parsed[1].barcode = FirstNonBlank(feed.items[1], Aliases(script, "barcode"))
             /\ parsed[1].name = FirstNonBlank(feed.items[1], Aliases(script, "name"))
        ELSE parsed = <<>>

(***************************************************************************)
(* Further claims about a run, checked under SpecRun.                      *)
(***************************************************************************)
\* How many records of recs are of chain c.
RecordsOfChain(recs, c) == Cardinality({ i \in DOMAIN recs : recs[i].chain = c })

\* sum(d.values()) of a dict of numbers.
RECURSIVE SumOfValues(_)
SumOfValues(d) ==
    IF d = {} THEN 0
    ELSE LET e == CHOOSE x \in d : TRUE
         IN  e[2] + SumOfValues(d \ {e})

\* The last entry of the fetch log for chain c.
LastFetchOf(log, c) ==
    log[CHOOSE k \in DOMAIN log :
            log[k].chain = c /\ \A l \in (k + 1)..Len(log) : log[l].chain # c]

NoChainTwice(chains) ==
    \A i \in DOMAIN chains : \A j \in DOMAIN chains : i # j => chains[i] # chains[j]

\* C24, as stated: after the fetch loop of fetch_all_chains every value of
\* chainsSummary is the number of records of its chain passed to the merge,
\* the values sum up to the number of merged input records, and
\* totalProducts does not exceed this sum.
C24_SummaryCountsMergedRecords ==
    (script = "fetch_all_chains" /\ pc = "done" /\ exit = "returned") =>
        /\ \A e \in chains_summary : e[2] = RecordsOfChain(run_products, e[1])
        /\ SumOfValues(chains_summary) = Len(run_products)
        /\ result.kind = "json" => result.totalProducts <= SumOfValues(chains_summary)

\* C24, corrected: every value of chainsSummary is the number of records
\* the last fetch of its chain returned; it is the number of the chain's
\* records passed to the merge, and the values sum up to the number of
\* merged input records, when no chain is fetched twice; and totalProducts
\* never exceeds the number of merged input records.
C24_SummaryCountsLastFetch ==
    script = "fetch_all_chains" =>
        /\ { e[1] : e \in chains_summary } = { fetch_log[k].chain : k \in DOMAIN fetch_log }
        /\ \A e \in chains_summary : e[2] = Len(LastFetchOf(fetch_log, e[1]).products)
        /\ NoChainTwice(selected) =>
              /\ \A e \in chains_summary : e[2] = RecordsOfChain(run_products, e[1])
              /\ SumOfValues(chains_summary) = Len(run_products)
        /\ result.kind = "json" => result.totalProducts <= Len(run_products)

\* rami_levy was named twice; its first fetch returned a record and its
\* second none, so the summary says 0 for a chain with a merged record.
C24_Witness ==
    /\ script = "fetch_all_chains"
    /\ pc = "done"
    /\ selected = <<"rami_levy", "rami_levy">>
    /\ Len(run_products) = 1
    /\ chains_summary = { <<"rami_levy", 0>> }
    /\ result.kind = "json"
    /\ result.totalProducts = 1

(***************************************************************************)
(* A further claim about the attempts of fetch_chain, checked under        *)
(* SpecChain.                                                              *)
(***************************************************************************)
\* The records the log says were added, over all its entries.
RECURSIVE LoggedCount(_)
LoggedCount(log) ==
    IF log = <<>> THEN 0 ELSE Head(log).count + LoggedCount(Tail(log))

SamePlace(e1, e2) == e1.dir = e2.dir /\ e1.file = e2.file

\* C25: in fetch_chain a file that is parsed again by a later attempt
\* added no record when it was parsed before, so the records of no file
\* are in the list twice; the list holds exactly the records the log
\* counts, up to the cut at the return.
C25_NoFileCountedTwice ==
    script = "fetch_all_chains" =>
        /\ \A k \in DOMAIN parse_log : \A l \in DOMAIN parse_log :
              (k < l /\ SamePlace(parse_log[k], parse_log[l])) => parse_log[k].count = 0
        /\ pc # "returned" => Len(chain_products) = LoggedCount(parse_log)
        /\ Len(chain_products) <= LoggedCount(parse_log)

\* A file was parsed by two attempts, and the fetch returned the records a
\* later file added.
C25_Witness ==
    /\ script = "fetch_all_chains"
    /\ pc = "returned"
    /\ chain_products # <<>>
    /\ \E k \in DOMAIN parse_log : \E l \in DOMAIN parse_log :
          k < l /\ SamePlace(parse_log[k], parse_log[l])

(***************************************************************************)
(* A further claim about the merge, checked under SpecMerge.               *)
(***************************************************************************)
\* Every record of recs has its barcode and its chain in the products m.
AllObserved(recs, m) ==
    \A j \in DOMAIN recs :
        \E i \in DOMAIN m :
            /\ m[i].barcode = recs[j].barcode
            /\ recs[j].chain \in PriceChains(m[i])

\* Every barcode and every price entry's chain of m is that of a record.
NothingInvented(recs, m) ==
    \A i \in DOMAIN m :
        /\ \E j \in DOMAIN recs : recs[j].barcode = m[i].barcode
        /\ \A k \in DOMAIN m[i].prices :
              \E j \in DOMAIN recs :
                  /\ recs[j].barcode = m[i].barcode
                  /\ recs[j].chain = m[i].prices[k].chain

\* C26: after every record consumed, and in the list handed on, each input
\* record's barcode has a product whose price list has an entry of the
\* record's chain, and each merged barcode and each price entry's chain is
\* that of some input record.
C26_NoObservationLost ==
    /\ AllObserved(all_products, merged)
    /\ NothingInvented(all_products, merged)
    /\ pc = "merged" =>
          /\ AllObserved(all_products, products)
          /\ NothingInvented(all_products, products)

\* The merge is over three records: two chains reported one barcode and
\* one of them reported a second barcode.
C26_Witness ==
    /\ pc = "merged"
    /\ Len(all_products) = 3
    /\ all_products[1].barcode = all_products[2].barcode
    /\ all_products[1].chain # all_products[2].chain
    /\ all_products[3].barcode # all_products[1].barcode
    /\ Len(products) = 2

====
